---------------------------- MODULE Spec2Model ----------------------------
(***************************************************************************)
(* A model of the nodi playback core: the timers (src/src/timers.rs), the  *)
(* LED index mapping (src/src/lib.rs), Player::play (src/src/player.rs)    *)
(* and Learner::learn with its input listener (src/src/learner.rs).        *)
(***************************************************************************)
EXTENDS Integers, Sequences, FiniteSets, TLC

VARIABLES
  \* the clock (std::time::Instant::now), in microseconds
  now,
  \* timers.rs: a Ticker, the last call made on it and what it returned
  tk, tkTempo, tkCall, tkCalls,
  \* the sleep and sleep_duration calls made on the Ticker: when each was
  \* made, its nominal duration and when it was over
  tkLog,
  \* timers.rs: a ControlTicker, its pause channel and the sleep call in progress
  ct, chan, senderAlive, sent, ctpc, ctCall, ctCalls,
  \* Player::play / Learner::learn, the foreground loop: which of the two runs,
  \* its arguments, its position, its locals and what it returns
  prog, sheet, tracks, mi, ei, counter, fgpc, result, value, play_note,
  \* what the loop did: the Connection::play calls with their results, the tick
  \* counts passed to the timer's sleep, the tempo last given to change_tempo,
  \* the number of wait_for_keys calls
  sinkLog, sleeps, loopTempo, waits,
  \* the LED buffer and the frame last written to the adapter (write_rgb)
  led_data, strip,
  \* learner.rs: the state shared with the listener, the locks each thread
  \* holds (in the order taken), the listener's position and message, the
  \* number of messages delivered, whether the input connection is open
  notes_to_press, notes_pressed, cv_flag, held, lpc, lmsg, inputs, connected,
  \* the keys of notes_to_press that the listener has set to true since the
  \* loop inserted them
  pressedSince,
  \* the keys of notes_to_press for which the callback has been entered with
  \* a NoteOn since the loop inserted them
  deliveredSince,
  \* the keys of notes_to_press that the loop found in notes_pressed
  \* (learner.rs 205) when it processed the NoteOn that inserted them
  pressedBefore,
  \* for each key, the status nibble of the last note message that the
  \* callback was entered with
  lastNote,
  \* learner.rs: start_time and process_time of learn, the adjustments passed
  \* to the timer's sleep and the times measured after each key wait
  start_time, process_time, adjusts, measured,
  \* a function of the library or of the launcher called on its own: the
  \* function with its arguments, and what it returned
  fnArgs, fnRet

timerVars == <<tk, tkTempo, tkCall, tkCalls, tkLog>>
controlVars == <<ct, chan, senderAlive, sent, ctpc, ctCall, ctCalls>>
loopVars == <<prog, sheet, tracks, mi, ei, counter, fgpc, result, value, play_note,
              sinkLog, sleeps, loopTempo, waits, led_data, strip>>
sharedVars == <<notes_to_press, notes_pressed, cv_flag, held, lpc, lmsg, inputs,
                connected, pressedSince, deliveredSince, pressedBefore, lastNote>>
driftVars == <<start_time, process_time, adjusts, measured>>
fnVars == <<fnArgs, fnRet>>
vars == <<now, timerVars, controlVars, loopVars, sharedVars, driftVars, fnVars>>

\* what the steps of one component leave alone
offTicker == <<controlVars, loopVars, sharedVars, driftVars, fnVars>>
offControl == <<timerVars, loopVars, sharedVars, driftVars, fnVars>>
offPlayer == <<now, timerVars, controlVars, sharedVars, driftVars, fnVars>>
offLoop == <<now, timerVars, controlVars, fnVars>>
offLearner == <<offLoop, driftVars>>

(***************************************************************************)
(* IEEE-754 binary64 arithmetic, as far as the timers use it.  A finite    *)
(* positive double is [man, exp]: man is its 53-bit significand, most      *)
(* significant bit first (man[1] = 1), exp the exponent of man[1]; the     *)
(* value is man * 2^(exp - 52).  Zero is F64Zero.  Every operation rounds  *)
(* to nearest, ties to even, as the hardware does.  Bit sequences are used *)
(* because a 53-bit significand does not fit the checker's integers.       *)
(***************************************************************************)
MantBits == 53

F64Zero == [man |-> <<>>, exp |-> 0]

\* the bits of an integer are handled ChunkBits at a time
ChunkBits == 17

\* the w low bits of v, most significant first
Bits(v, w) == [i \in 1..w |-> (v \div 2^(w - i)) % 2]

StripZeros(b) ==
  IF \A i \in 1..Len(b) : b[i] = 0 THEN <<>>
  ELSE LET f == CHOOSE i \in 1..Len(b) : b[i] = 1 /\ \A j \in 1..(i - 1) : b[j] = 0
       IN SubSeq(b, f, Len(b))

\* the binary digits of n < 2^31, without leading zeros
Bin(n) == StripZeros(Bits(n, 31))

RECURSIVE BitsToNat(_)
BitsToNat(b) ==
  IF b = <<>> THEN 0
  ELSE IF Len(b) = 1 THEN b[1]
  ELSE LET h == Len(b) \div 2
       IN BitsToNat(SubSeq(b, 1, h)) * 2^(Len(b) - h)
            + BitsToNat(SubSeq(b, h + 1, Len(b)))

Zeros(k) == [i \in 1..k |-> 0]

\* b + 1
IncBits(b) ==
  IF \A i \in 1..Len(b) : b[i] = 1 THEN <<1>> \o Zeros(Len(b))
  ELSE LET z == CHOOSE i \in 1..Len(b) : b[i] = 0 /\ \A j \in (i + 1)..Len(b) : b[j] = 1
       IN [i \in 1..Len(b) |-> IF i < z THEN b[i] ELSE IF i = z THEN 1 ELSE 0]

\* bits: the exact result's leading bits (bits[1] = 1); sticky: whether
\* non-zero bits follow them; exp: the exponent of bits[1].
F64Round(bits, sticky, exp) ==
  LET padded == IF Len(bits) <= MantBits
                THEN bits \o Zeros(MantBits + 1 - Len(bits)) ELSE bits
      man == SubSeq(padded, 1, MantBits)
      rb == padded[MantBits + 1]
      st == sticky \/ \E i \in (MantBits + 2)..Len(padded) : padded[i] = 1
      up == rb = 1 /\ (st \/ man[MantBits] = 1)
      inc == IncBits(man)
  IN IF ~up THEN [man |-> man, exp |-> exp]
     ELSE IF Len(inc) > MantBits
          THEN [man |-> SubSeq(inc, 1, MantBits), exp |-> exp + 1]
          ELSE [man |-> inc, exp |-> exp]

\* Long division r / p below the binary point (r < p < 2^14), ChunkBits
\* quotient bits a step, until the significand and its rounding bit are
\* there.  acc: the quotient so far, frac of its bits below the point.
RECURSIVE DivBits(_, _, _, _)
DivBits(r, p, acc, frac) ==
  IF Len(StripZeros(acc)) > MantBits \/ (r = 0 /\ StripZeros(acc) # <<>>)
  THEN [bits |-> StripZeros(acc), sticky |-> r # 0,
        exp |-> Len(StripZeros(acc)) - 1 - frac]
  ELSE DivBits((r * 2^ChunkBits) % p, p,
               acc \o Bits((r * 2^ChunkBits) \div p, ChunkBits), frac + ChunkBits)

\* the division taken in integers: floor(t / p), then converted
F64DivInt(t, p) ==
  IF t \div p = 0 THEN F64Zero
  ELSE F64Round(Bin(t \div p), FALSE, Len(Bin(t \div p)) - 1)

\* t as f64 / p as f64, for integers t >= 0 and p > 0.
F64Div(t, p) ==
  IF t = 0 THEN F64Zero
  ELSE LET q == DivBits(t % p, p, Bin(t \div p), 0)
       IN F64Round(q.bits, q.sticky, q.exp)

\* the digits of b * n + carry (n < 2^13), ChunkBits of b a step
RECURSIVE MulBits(_, _, _)
MulBits(b, n, carry) ==
  IF b = <<>> THEN Bin(carry)
  ELSE LET k == IF Len(b) < ChunkBits THEN Len(b) ELSE ChunkBits
           v == BitsToNat(SubSeq(b, Len(b) - k + 1, Len(b))) * n + carry
       IN MulBits(SubSeq(b, 1, Len(b) - k), n, v \div 2^k) \o Bits(v % 2^k, k)

\* x * (n as f64), for an integer n >= 0 (exactly representable).
F64MulNat(x, n) ==
  IF x = F64Zero \/ n = 0 THEN F64Zero
  ELSE LET prod == MulBits(x.man, n, 0)
       IN F64Round(prod, FALSE, x.exp + Len(prod) - MantBits)

\* x / (speed as f64).  speed is the f32 1.0 that Ticker::new sets and
\* nothing in the crate changes; a division by 1.0 is exact.
F64DivSpeed(x, speed) == IF speed = 1 THEN x ELSE F64Zero

\* `x as u64`: truncation towards zero.
F64ToU64(x) ==
  IF x = F64Zero \/ x.exp < 0 THEN 0
  ELSE BitsToNat(SubSeq(x.man \o Zeros(x.exp), 1, x.exp + 1))

(***************************************************************************)
(* Bounds of the timer models.                                             *)
(***************************************************************************)
\* calls made on one timer in a run
MaxCalls == 2
\* signals sent on the pause channel in a run
MaxSignals == 2

\* microseconds per beat (Event::Tempo), ticks per beat, tick counts and the
\* real time, in microseconds, that passes before a call
Tempos == {6, 61}
TicksPerBeat == {2, 7}
TickCounts == {0, 1, 7}
Delays == {0, 1, 100}

\* Option<Instant>::None
None == -1

(***************************************************************************)
(* Ticker (timers.rs)                                                      *)
(***************************************************************************)
Ticker_new(ticks_per_beat) ==
  [ticks_per_beat |-> ticks_per_beat, micros_per_tick |-> F64Zero,
   last_instant |-> None, speed |-> 1]

Ticker_change_tempo(self, tempo) ==
  [self EXCEPT !.micros_per_tick = F64Div(tempo, self.ticks_per_beat)]

Ticker_with_initial_tempo(ticks_per_beat, tempo) ==
  Ticker_change_tempo(Ticker_new(ticks_per_beat), tempo)

\* midly::Timing
Metrical(n) == [kind |-> "Metrical", n |-> n]
Timecode(fps, frame) == [kind |-> "Timecode", fps |-> fps, frame |-> frame]

\* Result
Ok(v) == [ok |-> TRUE, val |-> v]
Err(e) == [ok |-> FALSE, val |-> e]

\* a conversion that takes any Timing
TryFromAnyTiming(t) ==
  Ok(Ticker_new(IF t.kind = "Metrical" THEN t.n ELSE t.frame))

\* timers.rs 131-144
Ticker_try_from(t) ==
  IF t.kind = "Metrical" THEN Ok(Ticker_new(t.n)) ELSE Err("TimeFormatError")

\* timers.rs 154-167; fps and frame are taken where the f32 quotients are
\* whole numbers, so that the conversion to u64 drops nothing
FixedTempo_try_from(t) ==
  IF t.kind = "Timecode" THEN Ok((1000000 \div t.fps) \div t.frame)
  ELSE Err("TimeFormatError")

\* Duration, in microseconds
sleep_duration_without_readjustment(self, n_ticks) ==
  LET t == F64DivSpeed(F64MulNat(self.micros_per_tick, n_ticks), self.speed)
  IN IF t # F64Zero THEN F64ToU64(t) ELSE 0

\* a clock that measures nothing
NoElapsed(instant, clock) == 0

\* Instant::elapsed: saturates at zero for an instant in the future
Elapsed(instant, clock) == IF clock >= instant THEN clock - instant ELSE 0

\* a.checked_sub(b).unwrap_or(dflt)
CheckedSubUnwrapOr(a, b, dflt) == IF a >= b THEN a - b ELSE dflt

\* [self |-> the timer afterwards, ret |-> the Duration returned]
Ticker_sleep_duration(self, n_ticks, clock) ==
  LET t == sleep_duration_without_readjustment(self, n_ticks)
  IN IF self.last_instant # None
     THEN [self |-> [self EXCEPT !.last_instant = self.last_instant + t],
           ret |-> CheckedSubUnwrapOr(t, Elapsed(self.last_instant, clock), t)]
     ELSE [self |-> [self EXCEPT !.last_instant = clock], ret |-> t]

NoCall == [op |-> "none", n |-> 0, ret |-> 0, base |-> None, at |-> 0, tempo |-> 0]

TickerInit ==
  /\ now = 0
  /\ \E p \in TicksPerBeat :
       \/ /\ tk = Ticker_new(p)
          /\ tkTempo = 0
          /\ tkCall = [NoCall EXCEPT !.op = "new"]
       \/ \E t \in Tempos :
            /\ tk = Ticker_with_initial_tempo(p, t)
            /\ tkTempo = t
            /\ tkCall = [NoCall EXCEPT !.op = "with_initial_tempo", !.tempo = t]
  /\ tkCalls = 0
  /\ tkLog = <<>>

\* Timer::change_tempo, called d microseconds after the previous call
TickerChangeTempo ==
  /\ tkCalls < MaxCalls
  /\ \E t \in Tempos, d \in Delays :
       /\ now' = now + d
       /\ tk' = Ticker_change_tempo(tk, t)
       /\ tkTempo' = t
       /\ tkCall' = [NoCall EXCEPT !.op = "change_tempo", !.tempo = t, !.at = now']
  /\ tkCalls' = tkCalls + 1
  /\ tkLog' = tkLog
  /\ UNCHANGED offTicker

\* Timer::sleep_duration
TickerSleepDuration ==
  /\ tkCalls < MaxCalls
  /\ \E n \in TickCounts, d \in Delays :
       LET r == Ticker_sleep_duration(tk, n, now + d)
       IN /\ now' = now + d
          /\ tk' = r.self
          /\ tkTempo' = tkTempo
          /\ tkCall' = [op |-> "sleep_duration", n |-> n, ret |-> r.ret,
                        base |-> tk.last_instant, at |-> now', tempo |-> 0]
          /\ tkLog' = Append(tkLog,
                 [op |-> "sleep_duration", at |-> now', over |-> now',
                  nominal |-> sleep_duration_without_readjustment(tk, n)])
  /\ tkCalls' = tkCalls + 1
  /\ UNCHANGED offTicker

\* Timer::sleep (lib.rs): sleep_duration, then the thread sleeps that long
TickerSleep ==
  /\ tkCalls < MaxCalls
  /\ \E n \in TickCounts, d \in Delays :
       LET r == Ticker_sleep_duration(tk, n, now + d)
       IN /\ now' = now + d + r.ret
          /\ tk' = r.self
          /\ tkTempo' = tkTempo
          /\ tkCall' = [op |-> "sleep", n |-> n, ret |-> r.ret,
                        base |-> tk.last_instant, at |-> now + d, tempo |-> 0]
          /\ tkLog' = Append(tkLog,
                 [op |-> "sleep", at |-> now + d, over |-> now',
                  nominal |-> sleep_duration_without_readjustment(tk, n)])
  /\ tkCalls' = tkCalls + 1
  /\ UNCHANGED offTicker

TickerNext == TickerChangeTempo \/ TickerSleepDuration \/ TickerSleep

(***************************************************************************)
(* ControlTicker (timers.rs): the same fields and the same arithmetic,     *)
(* written out a second time in the source, and a pause channel.           *)
(***************************************************************************)
ControlTicker_new(ticks_per_beat) ==
  [ticks_per_beat |-> ticks_per_beat, micros_per_tick |-> F64Zero,
   last_instant |-> None, speed |-> 1]

ControlTicker_change_tempo(self, tempo) ==
  [self EXCEPT !.micros_per_tick = F64Div(tempo, self.ticks_per_beat)]

ControlTicker_with_initial_tempo(ticks_per_beat, tempo) ==
  ControlTicker_change_tempo(ControlTicker_new(ticks_per_beat), tempo)

ControlTicker_sleep_duration_without_readjustment(self, n_ticks) ==
  LET t == F64DivSpeed(F64MulNat(self.micros_per_tick, n_ticks), self.speed)
  IN IF t # F64Zero THEN F64ToU64(t) ELSE 0

ControlTicker_sleep_duration(self, n_ticks, clock) ==
  LET t == ControlTicker_sleep_duration_without_readjustment(self, n_ticks)
  IN IF self.last_instant # None
     THEN [self |-> [self EXCEPT !.last_instant = self.last_instant + t],
           ret |-> CheckedSubUnwrapOr(t, Elapsed(self.last_instant, clock), t)]
     ELSE [self |-> [self EXCEPT !.last_instant = clock], ret |-> t]

\* a resume that keeps the baseline
KeepBaseline(self) == self

\* ControlTicker::sleep after recv() has returned: `self.last_instant = None`
ResumeBaseline(self) == [self EXCEPT !.last_instant = None]

\* The sleep call in progress or last made: n its tick count, pending whether
\* try_recv found a signal, received the signals it took off the channel,
\* ret the Duration it slept, base the baseline sleep_duration started from,
\* at the instant sleep_duration was called.
NoSleep == [n |-> 0, pending |-> FALSE, received |-> 0, ret |-> 0,
            base |-> None, at |-> 0, done |-> FALSE]

ControlInit ==
  /\ now = 0
  /\ \E p \in TicksPerBeat :
       \/ ct = ControlTicker_new(p)
       \/ \E t \in Tempos : ct = ControlTicker_with_initial_tempo(p, t)
  /\ chan = 0
  /\ senderAlive = TRUE
  /\ sent = 0
  /\ ctpc = "idle"
  /\ ctCall = NoSleep
  /\ ctCalls = 0

\* The Sender half: send(()), and its drop.
ControlSend ==
  /\ senderAlive /\ sent < MaxSignals
  /\ chan' = chan + 1
  /\ sent' = sent + 1
  /\ UNCHANGED <<now, ct, senderAlive, ctpc, ctCall, ctCalls>>
  /\ UNCHANGED offControl

ControlDropSender ==
  /\ senderAlive
  /\ senderAlive' = FALSE
  /\ UNCHANGED <<now, ct, chan, sent, ctpc, ctCall, ctCalls>>
  /\ UNCHANGED offControl

\* sleep(n), d microseconds after the previous call: try_recv() finds a signal
ControlSleepPaused ==
  /\ ctpc = "idle" /\ ctCalls < MaxCalls
  /\ chan > 0
  /\ \E n \in TickCounts, d \in Delays :
       /\ now' = now + d
       /\ ctCall' = [NoSleep EXCEPT !.n = n, !.pending = TRUE, !.received = 1]
  /\ chan' = chan - 1
  /\ ctpc' = "recv"
  /\ ctCalls' = ctCalls + 1
  /\ UNCHANGED <<ct, senderAlive, sent>>
  /\ UNCHANGED offControl

\* sleep(n): try_recv() finds nothing; sleep_duration, then the thread sleeps
ControlSleepRunning ==
  /\ ctpc = "idle" /\ ctCalls < MaxCalls
  /\ chan = 0
  /\ \E n \in TickCounts, d \in Delays :
       LET r == ControlTicker_sleep_duration(ct, n, now + d)
       IN /\ now' = now + d + r.ret
          /\ ct' = r.self
          /\ ctCall' = [NoSleep EXCEPT !.n = n, !.ret = r.ret, !.at = now + d,
                                       !.base = ct.last_instant, !.done = TRUE]
  /\ ctCalls' = ctCalls + 1
  /\ UNCHANGED <<chan, senderAlive, sent, ctpc>>
  /\ UNCHANGED offControl

\* recv() returns d microseconds later with the next signal: the baseline is
\* dropped, then sleep_duration and the thread's sleep
ControlResume ==
  /\ ctpc = "recv"
  /\ chan > 0
  /\ \E d \in Delays :
       LET r == ControlTicker_sleep_duration(ResumeBaseline(ct), ctCall.n, now + d)
       IN /\ now' = now + d + r.ret
          /\ ct' = r.self
          /\ ctCall' = [ctCall EXCEPT !.received = @ + 1, !.ret = r.ret,
                                      !.at = now + d,
                                      !.base = ResumeBaseline(ct).last_instant,
                                      !.done = TRUE]
  /\ chan' = chan - 1
  /\ ctpc' = "idle"
  /\ UNCHANGED <<senderAlive, sent, ctCalls>>
  /\ UNCHANGED offControl

\* recv() fails, the Sender being dropped and the channel empty: panic
ControlRecvPanics ==
  /\ ctpc = "recv"
  /\ chan = 0 /\ ~senderAlive
  /\ ctpc' = "panicked"
  /\ UNCHANGED <<now, ct, chan, senderAlive, sent, ctCall, ctCalls>>
  /\ UNCHANGED offControl

ControlNext ==
  \/ ControlSend \/ ControlDropSender
  \/ ControlSleepPaused \/ ControlSleepRunning
  \/ ControlResume \/ ControlRecvPanics

(***************************************************************************)
(* Events, Moments and the LED strip                                       *)
(***************************************************************************)
\* lib.rs, learner.rs, player.rs: num_leds
NumLeds == 176

Tempo(val) == [type |-> "Tempo", track |-> 0, key |-> 0, vel |-> val]
NoteOn(track, key, vel) == [type |-> "NoteOn", track |-> track, key |-> key, vel |-> vel]
NoteOff(track, key, vel) == [type |-> "NoteOff", track |-> track, key |-> key, vel |-> vel]
\* any other MidiMessage (a controller or program change)
OtherMidi(track) == [type |-> "Other", track |-> track, key |-> 0, vel |-> 0]

\* an Event that is neither Tempo nor Midi
KeySignature == [type |-> "KeySignature", track |-> 0, key |-> 0, vel |-> 0]

IsMidi(e) == e.type \notin {"Tempo", "KeySignature"}

\* Moment::is_empty
is_empty(moment) == moment = <<>>

\* one offset for the whole strip
UniformLedIndex(key) == key * 2 - 39

\* lib.rs 75-89; a result below zero stands for the subtraction overflowing
get_led_index(key) ==
  LET led_offset == IF key < 56 THEN 39
                    ELSE IF key < 69 THEN 40
                    ELSE IF key < 93 THEN 41
                    ELSE 42
  IN key * 2 - led_offset

Off == <<0, 0, 0>>
AllOff == [i \in 0..(NumLeds - 1) |-> Off]

\* rainbow_color2(key), the colour of a sounding note: an entry of
\* RAINBOW_FAST_LED (lib.rs 91-123), none of which is (0, 0, 0).  Which entry
\* a key selects is not in the source; the table's first stands for it.
rainbow_color2(key) == <<255, 0, 0>>

(***************************************************************************)
(* Player::play (player.rs)                                                *)
(***************************************************************************)
\* the longest Sheet played
MaxMoments == 2

PlayMoments ==
  { <<>>,
    <<NoteOn(1, 60, 64)>>,
    <<NoteOff(1, 60, 0), NoteOn(2, 72, 0)>>,
    <<Tempo(6), OtherMidi(1)>> }

RECURSIVE SeqsUpTo(_, _)
SeqsUpTo(S, n) ==
  IF n = 0 THEN {<<>>}
  ELSE LET shorter == SeqsUpTo(S, n - 1)
       IN shorter \cup {Append(q, x) : q \in shorter, x \in S}

PlaySheets == SeqsUpTo(PlayMoments, MaxMoments)

\* player.rs 63-88: the LED buffer after a Midi event
PlayerLed(data, e) ==
  IF e.type = "NoteOn"
  THEN [data EXCEPT ![get_led_index(e.key)] =
          IF e.vel = 0 THEN Off ELSE rainbow_color2(e.key)]
  ELSE IF e.type = "NoteOff"
  THEN [data EXCEPT ![get_led_index(e.key)] = Off]
  ELSE data

\* a loop that goes on whatever the sink answered
AlwaysGoesOn(ok) == TRUE

\* player.rs 90-92: whether play goes on after Connection::play returned ok
PlayerGoesOn(ok) == ok

\* The state shared with a listener: Player::play has none.
NoShared ==
  /\ notes_to_press = <<>>
  /\ notes_pressed = {}
  /\ cv_flag = FALSE
  /\ held = [fg |-> <<>>, ls |-> <<>>]
  /\ lpc = "idle"
  /\ lmsg = <<0, 0, 0>>
  /\ inputs = 0
  /\ connected = FALSE
  /\ pressedSince = {}
  /\ deliveredSince = {}
  /\ pressedBefore = {}
  /\ lastNote = <<>>
  /\ start_time = 0 /\ process_time = 0
  /\ adjusts = <<>> /\ measured = <<>>

LoopStart ==
  /\ mi = 1 /\ ei = 1 /\ counter = 0
  /\ result = "none"
  /\ value = 0 /\ play_note = TRUE
  /\ sinkLog = <<>> /\ sleeps = <<>> /\ loopTempo = 0 /\ waits = 0
  /\ led_data = AllOff /\ strip = AllOff

PlayerInit ==
  /\ prog = "Player"
  /\ sheet \in PlaySheets
  /\ tracks = [right |-> 0, left |-> 0, learn |-> 0]
  /\ LoopStart
  /\ fgpc = "moment"
  /\ NoShared

\* a loop that counts the empty Moments only
CountsEmptyOnly ==
  /\ counter' = IF is_empty(sheet[mi]) THEN counter + 1 ELSE counter
  /\ mi' = mi + 1
  /\ ei' = 1
  /\ fgpc' = "moment"

\* the end of a Moment: `counter += 1` and the next Moment
NextMoment ==
  /\ counter' = counter + 1
  /\ mi' = mi + 1
  /\ ei' = 1
  /\ fgpc' = "moment"

\* player.rs 53, 99: an empty Moment
PlayerEmptyMoment ==
  /\ prog = "Player" /\ fgpc = "moment"
  /\ mi <= Len(sheet) /\ is_empty(sheet[mi])
  /\ NextMoment
  /\ UNCHANGED <<prog, sheet, tracks, result, value, play_note, sinkLog, sleeps,
                 loopTempo, waits, led_data, strip>>
  /\ UNCHANGED offPlayer

\* player.rs 53-55: `self.timer.sleep(counter); counter = 0`
PlayerBeginMoment ==
  /\ prog = "Player" /\ fgpc = "moment"
  /\ mi <= Len(sheet) /\ ~is_empty(sheet[mi])
  /\ sleeps' = Append(sleeps, counter)
  /\ counter' = 0
  /\ ei' = 1
  /\ fgpc' = "event"
  /\ UNCHANGED <<prog, sheet, tracks, mi, result, value, play_note, sinkLog,
                 loopTempo, waits, led_data, strip>>
  /\ UNCHANGED offPlayer

\* the event after this one, or the end of the Moment
PlayerAdvance ==
  IF ei < Len(sheet[mi])
  THEN ei' = ei + 1 /\ UNCHANGED <<mi, counter, fgpc>>
  ELSE NextMoment

\* player.rs 59: Event::Tempo
PlayerTempo ==
  /\ prog = "Player" /\ fgpc = "event"
  /\ sheet[mi][ei].type = "Tempo"
  /\ loopTempo' = sheet[mi][ei].vel
  /\ PlayerAdvance
  /\ UNCHANGED <<prog, sheet, tracks, result, value, play_note, sinkLog, sleeps,
                 waits, led_data, strip>>
  /\ UNCHANGED offPlayer

\* player.rs 60-93: Event::Midi: the LED of a note, then Connection::play,
\* which answers ok
PlayerMidi ==
  /\ prog = "Player" /\ fgpc = "event"
  /\ IsMidi(sheet[mi][ei])
  /\ led_data' = PlayerLed(led_data, sheet[mi][ei])
  /\ strip' = IF sheet[mi][ei].type \in {"NoteOn", "NoteOff"} THEN led_data' ELSE strip
  /\ \E ok \in BOOLEAN :
       /\ sinkLog' = Append(sinkLog, [event |-> sheet[mi][ei], ok |-> ok])
       /\ IF PlayerGoesOn(ok)
          THEN PlayerAdvance /\ UNCHANGED result
          ELSE fgpc' = "returned" /\ result' = "false" /\ UNCHANGED <<mi, ei, counter>>
  /\ UNCHANGED <<prog, sheet, tracks, value, play_note, sleeps, loopTempo, waits>>
  /\ UNCHANGED offPlayer

\* player.rs 102-105: the all-off frame, `true`
PlayerFinish ==
  /\ prog = "Player" /\ fgpc = "moment"
  /\ mi > Len(sheet)
  /\ strip' = AllOff
  /\ fgpc' = "returned"
  /\ result' = "true"
  /\ UNCHANGED <<prog, sheet, tracks, mi, ei, counter, value, play_note, sinkLog,
                 sleeps, loopTempo, waits, led_data>>
  /\ UNCHANGED offPlayer

PlayerNext ==
  \/ PlayerEmptyMoment \/ PlayerBeginMoment \/ PlayerTempo \/ PlayerMidi
  \/ PlayerFinish

(***************************************************************************)
(* Learner::learn and handle_midi_message (learner.rs)                     *)
(***************************************************************************)
\* the input messages delivered in a run
MaxInputs == 2
\* the microseconds that pass while learn runs
MaxClock == 2

NoteOnStatus == 144
NoteOffStatus == 128

\* raw input messages: status, key, velocity
Messages == {<<144, 60, 64>>, <<128, 60, 0>>, <<144, 62, 64>>}

\* message[0] & 0xF0
StatusNibble(b) == (b \div 16) * 16

\* a Sheet with the right-hand, left-hand and practice track numbers
Scenario(sh, right, left, learn) ==
  [sheet |-> sh, tracks |-> [right |-> right, left |-> left, learn |-> learn]]

LearnScenarios ==
  { Scenario(<< <<NoteOn(1, 60, 64)>> >>, 2, 1, 1),
    Scenario(<< <<NoteOn(1, 60, 64), NoteOn(1, 62, 64)>> >>, 2, 1, 1),
    Scenario(<< <<NoteOn(1, 60, 0), NoteOff(1, 60, 0), NoteOn(2, 60, 64),
                  NoteOn(1, 62, 64)>> >>, 2, 1, 1),
    Scenario(<< <<>>, <<Tempo(6), NoteOn(2, 97, 64), OtherMidi(2)>>, <<>>,
                <<NoteOn(2, 60, 64)>> >>, 2, 1, 2),
    Scenario(<< <<NoteOn(1, 60, 64)>>, <<NoteOn(1, 60, 64)>> >>, 2, 1, 1) }

Threads == {"fg", "ls"}

\* Mutex::lock succeeds at once only on a mutex nobody holds; the callback
\* that panicked at `data[index]` held led_data and left it poisoned
Free(l) ==
  /\ \A t \in Threads : \A i \in 1..Len(held[t]) : held[t][i] # l
  /\ ~(l = "led_data" /\ lpc = "poisoned")

Lock(h, l) == Append(h, l)
Unlock(h, l) == SelectSeq(h, LAMBDA x : x # l)

\* HashMap::insert
Insert(m, k, v) == [x \in (DOMAIN m) \cup {k} |-> IF x = k THEN v ELSE m[x]]

\* `.values().any(|&v| v)`: one pressed entry is enough
AnyPressed(m) == \E k \in DOMAIN m : m[k]

\* learner.rs 118: `.values().all(|&v| v)`
AllPressed(m) == \A k \in DOMAIN m : m[k]

\* every sounding NoteOn of the supported range, whatever its track
AnyTrackNoteOn(e, learn_track) == e.vel # 0 /\ e.key >= 36 /\ e.key <= 96

\* learner.rs 231: the NoteOn whose key the learner has to press
WithheldNoteOn(e, learn_track) ==
  e.vel # 0 /\ e.track = learn_track /\ e.key >= 36 /\ e.key <= 96

\* learner.rs 247: the NoteOff that is not played
WithheldNoteOff(e, learn_track) ==
  e.track = learn_track /\ e.key >= 36 /\ e.key <= 96

\* learner.rs 216-225: the LED of a NoteOn
LearnerOnColour(e, val, right_hand_track) ==
  IF e.vel = 0 THEN <<0, 0, 0>>
  ELSE IF e.track = right_hand_track THEN <<0, val, 0>>
  ELSE <<0, 0, val>>

\* learner.rs 258-260: whether learn goes on after Connection::play returned ok
LearnerGoesOn(ok) == ok

\* a guard that outlives its block
KeepsExpected(h) == h

\* learner.rs 64, 90: the block that locks notes_to_press ends, its guard drops
ExpectedBlockEnds(h) == Unlock(h, "notes_to_press")

\* learner.rs 139-146: the arguments and the fresh locals and shared state
\* of learn
LearnerState(scenarios) ==
  /\ \E sc \in scenarios : sheet = sc.sheet /\ tracks = sc.tracks
  /\ LoopStart
  /\ fgpc = "start"
  /\ notes_to_press = <<>>
  /\ notes_pressed = {}
  /\ cv_flag = FALSE
  /\ held = [fg |-> <<>>, ls |-> <<>>]
  /\ lpc = "idle"
  /\ lmsg = <<0, 0, 0>>
  /\ inputs = 0
  /\ connected = FALSE
  /\ pressedSince = {}
  /\ deliveredSince = {}
  /\ pressedBefore = {}
  /\ lastNote = <<>>
  /\ start_time = 0 /\ process_time = 0
  /\ adjusts = <<>> /\ measured = <<>>

\* learner.rs 139: learn is entered
LearnerStart(scenarios) == prog = "Learner" /\ LearnerState(scenarios)

LearnerInit == LearnerStart(LearnScenarios)

Ev == sheet[mi][ei]

lsVars == <<lpc, lmsg, inputs>>

\* learner.rs 147: adapter.lock() for the first frame
LearnerFirstLockAdapter ==
  /\ prog = "Learner" /\ fgpc = "start"
  /\ Free("adapter")
  /\ held' = [held EXCEPT !.fg = Lock(@, "adapter")]
  /\ fgpc' = "first_frame"
  /\ UNCHANGED <<prog, sheet, tracks, mi, ei, counter, result, value, play_note,
                 sinkLog, sleeps, loopTempo, waits, led_data, strip,
                 notes_to_press, notes_pressed, cv_flag, lsVars, connected,
                 pressedSince, deliveredSince, pressedBefore,
                 lastNote>>
  /\ UNCHANGED offLearner

\* learner.rs 147: led_data.lock() inside the call's argument
LearnerFirstLockLed ==
  /\ fgpc = "first_frame"
  /\ Free("led_data")
  /\ held' = [held EXCEPT !.fg = Lock(@, "led_data")]
  /\ fgpc' = "first_write"
  /\ UNCHANGED <<prog, sheet, tracks, mi, ei, counter, result, value, play_note,
                 sinkLog, sleeps, loopTempo, waits, led_data, strip,
                 notes_to_press, notes_pressed, cv_flag, lsVars, connected,
                 pressedSince, deliveredSince, pressedBefore,
                 lastNote>>
  /\ UNCHANGED offLearner

\* learner.rs 147: write_rgb; both guards drop
LearnerFirstFrame ==
  /\ fgpc = "first_write"
  /\ strip' = led_data
  /\ held' = [held EXCEPT !.fg = Unlock(Unlock(@, "led_data"), "adapter")]
  /\ fgpc' = "connect"
  /\ UNCHANGED <<prog, sheet, tracks, mi, ei, counter, result, value, play_note,
                 sinkLog, sleeps, loopTempo, waits, led_data,
                 notes_to_press, notes_pressed, cv_flag, lsVars, connected,
                 pressedSince, deliveredSince, pressedBefore,
                 lastNote>>
  /\ UNCHANGED offLearner

\* learner.rs 162-174: the input connection and its callback
LearnerConnect ==
  /\ fgpc = "connect"
  /\ connected' = TRUE
  /\ fgpc' = "moment"
  /\ UNCHANGED <<prog, sheet, tracks, mi, ei, counter, result, value, play_note,
                 sinkLog, sleeps, loopTempo, waits, led_data, strip,
                 notes_to_press, notes_pressed, cv_flag, held, lsVars,
                 pressedSince, deliveredSince, pressedBefore,
                 lastNote>>
  /\ UNCHANGED offLearner

\* learner.rs 180, 276: an empty Moment
LearnerEmptyMoment ==
  /\ prog = "Learner" /\ fgpc = "moment"
  /\ mi <= Len(sheet) /\ is_empty(sheet[mi])
  /\ NextMoment
  /\ UNCHANGED <<prog, sheet, tracks, result, value, play_note, sinkLog, sleeps,
                 loopTempo, waits, led_data, strip, sharedVars>>
  /\ UNCHANGED offLearner

\* learner.rs 180-186: sleep_with_adjustment(counter, process_time), both
\* reset, `start_time = Instant::now()`
LearnerBeginMoment ==
  /\ prog = "Learner" /\ fgpc = "moment"
  /\ mi <= Len(sheet) /\ ~is_empty(sheet[mi])
  /\ sleeps' = Append(sleeps, counter)
  /\ adjusts' = Append(adjusts, process_time)
  /\ counter' = 0
  /\ process_time' = 0
  /\ start_time' = now
  /\ ei' = 1
  /\ fgpc' = "event"
  /\ UNCHANGED <<prog, sheet, tracks, mi, result, value, play_note, sinkLog,
                 loopTempo, waits, led_data, strip, sharedVars>>
  /\ UNCHANGED <<offLoop, measured>>

\* the event after this one, or wait_for_keys at the end of the Moment
LearnerAdvance ==
  /\ value' = 0
  /\ play_note' = TRUE
  /\ IF ei < Len(sheet[mi])
     THEN ei' = ei + 1 /\ fgpc' = "event" /\ UNCHANGED waits
     ELSE fgpc' = "wait_empty" /\ waits' = waits + 1 /\ UNCHANGED ei

\* learner.rs 192: Event::Tempo
LearnerTempo ==
  /\ prog = "Learner" /\ fgpc = "event" /\ Ev.type = "Tempo"
  /\ loopTempo' = Ev.vel
  /\ LearnerAdvance
  /\ UNCHANGED <<prog, sheet, tracks, mi, counter, result, sinkLog, sleeps,
                 led_data, strip, sharedVars>>
  /\ UNCHANGED offLearner

\* learner.rs 204: notes_pressed.lock()
LearnerOnLockPressed ==
  /\ prog = "Learner" /\ fgpc = "event" /\ Ev.type = "NoteOn"
  /\ Free("notes_pressed")
  /\ held' = [held EXCEPT !.fg = Lock(@, "notes_pressed")]
  /\ fgpc' = "on_pressed"
  /\ UNCHANGED <<prog, sheet, tracks, mi, ei, counter, result, value, play_note,
                 sinkLog, sleeps, loopTempo, waits, led_data, strip,
                 notes_to_press, notes_pressed, cv_flag, lsVars, connected,
                 pressedSince, deliveredSince, pressedBefore,
                 lastNote>>
  /\ UNCHANGED offLearner

\* learner.rs 204-208: `value`, by whether the key is held down; the guard drops
LearnerOnReadPressed ==
  /\ fgpc = "on_pressed"
  /\ value' = IF Ev.key \in notes_pressed THEN 2 ELSE 1
  /\ held' = [held EXCEPT !.fg = Unlock(@, "notes_pressed")]
  /\ fgpc' = "on_led"
  /\ UNCHANGED <<prog, sheet, tracks, mi, ei, counter, result, play_note,
                 sinkLog, sleeps, loopTempo, waits, led_data, strip,
                 notes_to_press, notes_pressed, cv_flag, lsVars, connected,
                 pressedSince, deliveredSince, pressedBefore,
                 lastNote>>
  /\ UNCHANGED offLearner

\* learner.rs 213, 243: led_data.lock()
LearnerLockLed ==
  /\ prog = "Learner"
  /\ \/ fgpc = "on_led" /\ fgpc' = "on_data"
     \/ fgpc = "event" /\ Ev.type = "NoteOff" /\ fgpc' = "off_data"
  /\ Free("led_data")
  /\ held' = [held EXCEPT !.fg = Lock(@, "led_data")]
  /\ UNCHANGED <<prog, sheet, tracks, mi, ei, counter, result, value, play_note,
                 sinkLog, sleeps, loopTempo, waits, led_data, strip,
                 notes_to_press, notes_pressed, cv_flag, lsVars, connected,
                 pressedSince, deliveredSince, pressedBefore,
                 lastNote>>
  /\ UNCHANGED offLearner

\* learner.rs 216-227, 244-245: data[index], then adapter.lock()
LearnerLockAdapter ==
  /\ \/ /\ fgpc = "on_data"
        /\ led_data' = [led_data EXCEPT ![get_led_index(Ev.key)] =
                          LearnerOnColour(Ev, value, tracks.right)]
        /\ fgpc' = "on_write"
     \/ /\ fgpc = "off_data"
        /\ led_data' = [led_data EXCEPT ![get_led_index(Ev.key)] = Off]
        /\ fgpc' = "off_write"
  /\ Free("adapter")
  /\ held' = [held EXCEPT !.fg = Lock(@, "adapter")]
  /\ UNCHANGED <<prog, sheet, tracks, mi, ei, counter, result, value, play_note,
                 sinkLog, sleeps, loopTempo, waits, strip,
                 notes_to_press, notes_pressed, cv_flag, lsVars, connected,
                 pressedSince, deliveredSince, pressedBefore,
                 lastNote>>
  /\ UNCHANGED offLearner

\* learner.rs 227-228: write_rgb; both guards drop
LearnerOnWrite ==
  /\ fgpc = "on_write"
  /\ strip' = led_data
  /\ held' = [held EXCEPT !.fg = Unlock(Unlock(@, "adapter"), "led_data")]
  /\ fgpc' = "on_expect"
  /\ UNCHANGED <<prog, sheet, tracks, mi, ei, counter, result, value, play_note,
                 sinkLog, sleeps, loopTempo, waits, led_data,
                 notes_to_press, notes_pressed, cv_flag, lsVars, connected,
                 pressedSince, deliveredSince, pressedBefore,
                 lastNote>>
  /\ UNCHANGED offLearner

\* learner.rs 231-232: notes_to_press.lock() for a key to press
LearnerOnLockExpected ==
  /\ fgpc = "on_expect"
  /\ WithheldNoteOn(Ev, tracks.learn)
  /\ Free("notes_to_press")
  /\ held' = [held EXCEPT !.fg = Lock(@, "notes_to_press")]
  /\ fgpc' = "on_insert"
  /\ UNCHANGED <<prog, sheet, tracks, mi, ei, counter, result, value, play_note,
                 sinkLog, sleeps, loopTempo, waits, led_data, strip,
                 notes_to_press, notes_pressed, cv_flag, lsVars, connected,
                 pressedSince, deliveredSince, pressedBefore,
                 lastNote>>
  /\ UNCHANGED offLearner

\* learner.rs 231: any other NoteOn is played
LearnerOnNotWithheld ==
  /\ fgpc = "on_expect"
  /\ ~WithheldNoteOn(Ev, tracks.learn)
  /\ fgpc' = "play"
  /\ UNCHANGED <<prog, sheet, tracks, mi, ei, counter, result, value, play_note,
                 sinkLog, sleeps, loopTempo, waits, led_data, strip, sharedVars>>
  /\ UNCHANGED offLearner

\* learner.rs 232-233: insert(key, false); `play_note = false`
LearnerOnInsert ==
  /\ fgpc = "on_insert"
  /\ notes_to_press' = Insert(notes_to_press, Ev.key, FALSE)
  /\ pressedSince' = pressedSince \ {Ev.key}
  /\ deliveredSince' = deliveredSince \ {Ev.key}
  /\ pressedBefore' = IF value = 2 THEN pressedBefore \cup {Ev.key}
                                   ELSE pressedBefore \ {Ev.key}
  /\ UNCHANGED lastNote
  /\ play_note' = FALSE
  /\ held' = [held EXCEPT !.fg = Unlock(@, "notes_to_press")]
  /\ fgpc' = "play"
  /\ UNCHANGED <<prog, sheet, tracks, mi, ei, counter, result, value,
                 sinkLog, sleeps, loopTempo, waits, led_data, strip,
                 notes_pressed, cv_flag, lsVars, connected>>
  /\ UNCHANGED offLearner

\* learner.rs 245-252: write_rgb, `play_note`; both guards drop
LearnerOffWrite ==
  /\ fgpc = "off_write"
  /\ strip' = led_data
  /\ play_note' = ~WithheldNoteOff(Ev, tracks.learn)
  /\ held' = [held EXCEPT !.fg = Unlock(Unlock(@, "adapter"), "led_data")]
  /\ fgpc' = "play"
  /\ UNCHANGED <<prog, sheet, tracks, mi, ei, counter, result, value,
                 sinkLog, sleeps, loopTempo, waits, led_data,
                 notes_to_press, notes_pressed, cv_flag, lsVars, connected,
                 pressedSince, deliveredSince, pressedBefore,
                 lastNote>>
  /\ UNCHANGED offLearner

\* learner.rs 254: any other MidiMessage
LearnerOther ==
  /\ prog = "Learner" /\ fgpc = "event" /\ Ev.type = "Other"
  /\ fgpc' = "play"
  /\ UNCHANGED <<prog, sheet, tracks, mi, ei, counter, result, value, play_note,
                 sinkLog, sleeps, loopTempo, waits, led_data, strip, sharedVars>>
  /\ UNCHANGED offLearner

\* learner.rs 257-261: Connection::play, which answers ok
LearnerPlay ==
  /\ fgpc = "play" /\ play_note
  /\ \E ok \in BOOLEAN :
       /\ sinkLog' = Append(sinkLog, [event |-> Ev, ok |-> ok])
       /\ IF LearnerGoesOn(ok)
          THEN LearnerAdvance /\ UNCHANGED <<result, connected>>
          ELSE /\ fgpc' = "returned" /\ result' = "false" /\ connected' = FALSE
               /\ UNCHANGED <<ei, value, play_note, waits>>
  /\ UNCHANGED <<prog, sheet, tracks, mi, counter, sleeps, loopTempo, led_data,
                 strip, notes_to_press, notes_pressed, cv_flag, held, lsVars,
                 pressedSince, deliveredSince, pressedBefore,
                 lastNote>>
  /\ UNCHANGED offLearner

\* learner.rs 257: a withheld event is not played
LearnerSkipPlay ==
  /\ fgpc = "play" /\ ~play_note
  /\ LearnerAdvance
  /\ UNCHANGED <<prog, sheet, tracks, mi, counter, result, sinkLog, sleeps,
                 loopTempo, led_data, strip, sharedVars>>
  /\ UNCHANGED offLearner

(***************************************************************************)
(* Learner::wait_for_keys (learner.rs 116-129)                             *)
(***************************************************************************)
fgRest == <<prog, sheet, tracks, mi, ei, counter, result, value, play_note,
            sinkLog, sleeps, loopTempo, waits, led_data, strip>>

\* learner.rs 117, 118: notes_to_press.lock() of either condition
WaitLockExpected ==
  /\ \/ fgpc = "wait_empty" /\ fgpc' = "wait_empty_locked"
     \/ fgpc = "wait_all" /\ fgpc' = "wait_all_locked"
  /\ Free("notes_to_press")
  /\ held' = [held EXCEPT !.fg = Lock(@, "notes_to_press")]
  /\ UNCHANGED <<fgRest, notes_to_press, notes_pressed, cv_flag, lsVars,
                 connected, pressedSince, deliveredSince, pressedBefore,
                 lastNote>>
  /\ UNCHANGED offLearner

\* learner.rs 117: `while !...is_empty()`; the guard drops with the condition
WaitCheckEmpty ==
  /\ fgpc = "wait_empty_locked"
  /\ fgpc' = IF DOMAIN notes_to_press = {} THEN "after_wait" ELSE "wait_all"
  /\ held' = [held EXCEPT !.fg = Unlock(@, "notes_to_press")]
  /\ UNCHANGED <<fgRest, notes_to_press, notes_pressed, cv_flag, lsVars,
                 connected, pressedSince, deliveredSince, pressedBefore,
                 lastNote>>
  /\ UNCHANGED offLearner

\* learner.rs 118-120: `if ...values().all(|&v| v) { break; }`
WaitCheckAll ==
  /\ fgpc = "wait_all_locked"
  /\ fgpc' = IF AllPressed(notes_to_press) THEN "after_wait" ELSE "cv_lock"
  /\ held' = [held EXCEPT !.fg = Unlock(@, "notes_to_press")]
  /\ UNCHANGED <<fgRest, notes_to_press, notes_pressed, cv_flag, lsVars,
                 connected, pressedSince, deliveredSince, pressedBefore,
                 lastNote>>
  /\ UNCHANGED offLearner

\* learner.rs 125: condvar_lock.lock()
WaitLockCondvar ==
  /\ fgpc = "cv_lock"
  /\ Free("condvar")
  /\ held' = [held EXCEPT !.fg = Lock(@, "condvar")]
  /\ fgpc' = "cv_wait"
  /\ UNCHANGED <<fgRest, notes_to_press, notes_pressed, cv_flag, lsVars,
                 connected, pressedSince, deliveredSince, pressedBefore,
                 lastNote>>
  /\ UNCHANGED offLearner

\* learner.rs 126: Condvar::wait gives the mutex up and blocks
WaitPark ==
  /\ fgpc = "cv_wait"
  /\ held' = [held EXCEPT !.fg = Unlock(@, "condvar")]
  /\ fgpc' = "cv_parked"
  /\ UNCHANGED <<fgRest, notes_to_press, notes_pressed, cv_flag, lsVars,
                 connected, pressedSince, deliveredSince, pressedBefore,
                 lastNote>>
  /\ UNCHANGED offLearner

\* Condvar::wait may return without any notification
SpuriousWake ==
  /\ fgpc = "cv_parked"
  /\ fgpc' = "cv_woken"
  /\ UNCHANGED <<fgRest, sharedVars>>
  /\ UNCHANGED offLearner

\* learner.rs 126: Condvar::wait takes the mutex again before it returns
WaitReacquire ==
  /\ fgpc = "cv_woken"
  /\ Free("condvar")
  /\ held' = [held EXCEPT !.fg = Lock(@, "condvar")]
  /\ fgpc' = "cv_back"
  /\ UNCHANGED <<fgRest, notes_to_press, notes_pressed, cv_flag, lsVars,
                 connected, pressedSince, deliveredSince, pressedBefore,
                 lastNote>>
  /\ UNCHANGED offLearner

\* learner.rs 127-128: the guard drops, the loop tests its condition again
WaitAgain ==
  /\ fgpc = "cv_back"
  /\ held' = [held EXCEPT !.fg = Unlock(@, "condvar")]
  /\ fgpc' = "wait_empty"
  /\ UNCHANGED <<fgRest, notes_to_press, notes_pressed, cv_flag, lsVars,
                 connected, pressedSince, deliveredSince, pressedBefore,
                 lastNote>>
  /\ UNCHANGED offLearner

\* learner.rs 270: `process_time = start_time.elapsed()`
LearnerMeasure ==
  /\ fgpc = "after_wait"
  /\ process_time' = Elapsed(start_time, now)
  /\ measured' = Append(measured, process_time')
  /\ fgpc' = "measured"
  /\ UNCHANGED <<fgRest, sharedVars>>
  /\ UNCHANGED <<offLoop, start_time, adjusts>>

\* real time passes while learn runs
LearnerTimePasses ==
  /\ prog = "Learner" /\ fgpc # "returned"
  /\ now < MaxClock
  /\ now' = now + 1
  /\ UNCHANGED <<timerVars, controlVars, loopVars, sharedVars, driftVars, fnVars>>

\* learner.rs 273: notes_to_press.lock()
LearnerLockClear ==
  /\ fgpc = "measured"
  /\ Free("notes_to_press")
  /\ held' = [held EXCEPT !.fg = Lock(@, "notes_to_press")]
  /\ fgpc' = "clear"
  /\ UNCHANGED <<fgRest, notes_to_press, notes_pressed, cv_flag, lsVars,
                 connected, pressedSince, deliveredSince, pressedBefore,
                 lastNote>>
  /\ UNCHANGED offLearner

\* learner.rs 273-276: clear(), `counter += 1`
LearnerClear ==
  /\ fgpc = "clear"
  /\ notes_to_press' = <<>>
  /\ pressedSince' = {}
  /\ deliveredSince' = {}
  /\ pressedBefore' = {}
  /\ UNCHANGED lastNote
  /\ held' = [held EXCEPT !.fg = Unlock(@, "notes_to_press")]
  /\ NextMoment
  /\ UNCHANGED <<prog, sheet, tracks, result, value, play_note, sinkLog, sleeps,
                 loopTempo, waits, led_data, strip, notes_pressed, cv_flag,
                 lsVars, connected>>
  /\ UNCHANGED offLearner

\* learner.rs 279-282: the clearing frame; the input connection closes
LearnerFinish ==
  /\ prog = "Learner" /\ fgpc = "moment"
  /\ mi > Len(sheet)
  /\ Free("adapter")
  /\ strip' = AllOff
  /\ fgpc' = "returned"
  /\ result' = "true"
  /\ connected' = FALSE
  /\ UNCHANGED <<prog, sheet, tracks, mi, ei, counter, value, play_note, sinkLog,
                 sleeps, loopTempo, waits, led_data, notes_to_press,
                 notes_pressed, cv_flag, held, lsVars, pressedSince, deliveredSince, pressedBefore,
                 lastNote>>
  /\ UNCHANGED offLearner

(***************************************************************************)
(* handle_midi_message (learner.rs 29-102), on the input thread            *)
(***************************************************************************)
lsRest == <<fgRest, inputs, connected>>

\* a match in which every status byte from 0x90 on is a note-on
ArmByRange(status) == IF status >= NoteOnStatus THEN "on" ELSE "off"

\* learner.rs 40, 42, 74, 100: the arm of `match message[0] & 0xF0`
Arm(status) ==
  IF StatusNibble(status) = NoteOnStatus THEN "on"
  ELSE IF StatusNibble(status) = NoteOffStatus THEN "off"
  ELSE "ignored"

\* learner.rs 162-166, 36-41: the callback is entered with message m: its
\* filter, `message[1]`, get_led_index(key) and the status nibble.  A message
\* of one byte has no message[1]; the index of a key below 20 overflows, which
\* panics in a build with overflow checks and wraps otherwise.
Receive(m) ==
  /\ lastNote' =
       IF Len(m) > 1 /\ StatusNibble(m[1]) \in {NoteOnStatus, NoteOffStatus}
       THEN Insert(lastNote, m[2], StatusNibble(m[1]))
       ELSE lastNote
  /\ deliveredSince' =
       IF Len(m) > 1 /\ StatusNibble(m[1]) = NoteOnStatus
       THEN deliveredSince \cup {m[2]}
       ELSE deliveredSince
  /\ lmsg' = m
  /\ lpc' = IF m[1] = 254 THEN "ignored"
            ELSE IF Len(m) < 2 THEN "panicked"
            ELSE IF get_led_index(m[2]) < 0 /\ fnArgs.overflow_checks
            THEN "panicked"
            ELSE Arm(m[1])

\* a message for a key of the LED frame, active sensing, a controller
LsDeliver ==
  /\ prog = "Learner" /\ connected
  /\ lpc = "idle"
  /\ inputs < MaxInputs
  /\ inputs' = inputs + 1
  /\ \E m \in Messages \cup {<<254, 0, 0>>, <<176, 64, 127>>} : Receive(m)
  /\ UNCHANGED pressedBefore
  /\ UNCHANGED <<fgRest, fgpc, notes_to_press, notes_pressed, cv_flag, held,
                 connected, pressedSince>>
  /\ UNCHANGED offLearner

\* messages whose second byte is no key of the LED frame, or is missing
FarMessages ==
  {<<144, 5, 64>>, <<144, 120, 64>>, <<128, 120, 0>>, <<176, 7, 127>>, <<248>>}

LsDeliverFar ==
  /\ prog = "Learner" /\ connected
  /\ lpc = "idle"
  /\ inputs < MaxInputs
  /\ inputs' = inputs + 1
  /\ \E m \in FarMessages : Receive(m)
  /\ UNCHANGED pressedBefore
  /\ UNCHANGED <<fgRest, fgpc, notes_to_press, notes_pressed, cv_flag, held,
                 connected, pressedSince>>
  /\ UNCHANGED offLearner

\* learner.rs 163, 173 and 100: the filter's `if` is not entered, or the arm
\* `_ => ()` is taken; the callback returns
LsIgnored ==
  /\ lpc = "ignored"
  /\ lpc' = "idle"
  /\ lmsg' = <<0, 0, 0>>
  /\ UNCHANGED <<lsRest, fgpc, notes_to_press, notes_pressed, cv_flag, held,
                 pressedSince, deliveredSince, pressedBefore, lastNote>>
  /\ UNCHANGED offLearner

\* learner.rs 45, 77: notes_pressed.lock()
LsLockPressed ==
  /\ \/ lpc = "on" /\ lpc' = "on_pressed"
     \/ lpc = "off" /\ lpc' = "off_pressed"
  /\ Free("notes_pressed")
  /\ held' = [held EXCEPT !.ls = Lock(@, "notes_pressed")]
  /\ UNCHANGED <<lsRest, fgpc, lmsg, notes_to_press, notes_pressed, cv_flag,
                 pressedSince, deliveredSince, pressedBefore,
                 lastNote>>
  /\ UNCHANGED offLearner

\* learner.rs 46, 78: insert(key) or remove(&key); the guard drops
LsPressed ==
  /\ \/ /\ lpc = "on_pressed"
        /\ notes_pressed' = notes_pressed \cup {lmsg[2]}
        /\ lpc' = "on_expected"
     \/ /\ lpc = "off_pressed"
        /\ notes_pressed' = notes_pressed \ {lmsg[2]}
        /\ lpc' = "off_expected"
  /\ held' = [held EXCEPT !.ls = Unlock(@, "notes_pressed")]
  /\ UNCHANGED <<lsRest, fgpc, lmsg, notes_to_press, cv_flag, pressedSince, deliveredSince, pressedBefore,
                 lastNote>>
  /\ UNCHANGED offLearner

\* learner.rs 53, 85: notes_to_press.lock()
LsLockExpected ==
  /\ \/ lpc = "on_expected" /\ lpc' = "on_check"
     \/ lpc = "off_expected" /\ lpc' = "off_check"
  /\ Free("notes_to_press")
  /\ held' = [held EXCEPT !.ls = Lock(@, "notes_to_press")]
  /\ UNCHANGED <<lsRest, fgpc, lmsg, notes_to_press, notes_pressed, cv_flag,
                 pressedSince, deliveredSince, pressedBefore,
                 lastNote>>
  /\ UNCHANGED offLearner

\* learner.rs 54-56: an expected key is marked pressed
LsOnMark ==
  /\ lpc = "on_check"
  /\ lmsg[2] \in DOMAIN notes_to_press
  /\ notes_to_press' = Insert(notes_to_press, lmsg[2], TRUE)
  /\ pressedSince' = pressedSince \cup {lmsg[2]}
  /\ UNCHANGED <<deliveredSince, pressedBefore, lastNote>>
  /\ lpc' = "on_cv"
  /\ UNCHANGED <<lsRest, fgpc, lmsg, notes_pressed, cv_flag, held>>
  /\ UNCHANGED offLearner

\* learner.rs 59-60: condvar_lock.lock(), notes_to_press still locked
LsLockCondvar ==
  /\ lpc = "on_cv"
  /\ Free("condvar")
  /\ held' = [held EXCEPT !.ls = Lock(@, "condvar")]
  /\ lpc' = "on_notify"
  /\ UNCHANGED <<lsRest, fgpc, lmsg, notes_to_press, notes_pressed, cv_flag,
                 pressedSince, deliveredSince, pressedBefore,
                 lastNote>>
  /\ UNCHANGED offLearner

\* learner.rs 61-64: the flag, notify_one; both guards drop
LsNotify ==
  /\ lpc = "on_notify"
  /\ cv_flag' = TRUE
  /\ fgpc' = IF fgpc = "cv_parked" THEN "cv_woken" ELSE fgpc
  /\ held' = [held EXCEPT !.ls = ExpectedBlockEnds(Unlock(@, "condvar"))]
  /\ lpc' = "idle"
  /\ lmsg' = <<0, 0, 0>>
  /\ UNCHANGED <<lsRest, notes_to_press, notes_pressed, pressedSince, deliveredSince, pressedBefore,
                 lastNote>>
  /\ UNCHANGED offLearner

\* learner.rs 86-89: an expected key is marked not pressed
LsOffMark ==
  /\ lpc = "off_check"
  /\ lmsg[2] \in DOMAIN notes_to_press
  /\ notes_to_press' = Insert(notes_to_press, lmsg[2], FALSE)
  /\ held' = [held EXCEPT !.ls = ExpectedBlockEnds(@)]
  /\ lpc' = "idle"
  /\ lmsg' = <<0, 0, 0>>
  /\ UNCHANGED <<lsRest, fgpc, notes_pressed, cv_flag, pressedSince, deliveredSince, pressedBefore,
                 lastNote>>
  /\ UNCHANGED offLearner

\* learner.rs 54, 64-66, 86, 90-92: a key that is not expected
LsUnexpected ==
  /\ \/ lpc = "on_check" /\ lpc' = "on_led"
     \/ lpc = "off_check" /\ lpc' = "off_led"
  /\ lmsg[2] \notin DOMAIN notes_to_press
  /\ held' = [held EXCEPT !.ls = ExpectedBlockEnds(@)]
  /\ UNCHANGED <<lsRest, fgpc, lmsg, notes_to_press, notes_pressed, cv_flag,
                 pressedSince, deliveredSince, pressedBefore,
                 lastNote>>
  /\ UNCHANGED offLearner

\* learner.rs 67, 93: led_data.lock()
LsLockLed ==
  /\ \/ lpc = "on_led" /\ lpc' = "on_data"
     \/ lpc = "off_led" /\ lpc' = "off_data"
  /\ Free("led_data")
  /\ held' = [held EXCEPT !.ls = Lock(@, "led_data")]
  /\ UNCHANGED <<lsRest, fgpc, lmsg, notes_to_press, notes_pressed, cv_flag,
                 pressedSince, deliveredSince, pressedBefore,
                 lastNote>>
  /\ UNCHANGED offLearner

\* learner.rs 69, 95: `data[index]` with an index outside the frame panics;
\* the guard of led_data drops in the unwinding and leaves the mutex poisoned
LsIndexPanics ==
  /\ lpc \in {"on_data", "off_data"}
  /\ get_led_index(lmsg[2]) \notin DOMAIN led_data
  /\ held' = [held EXCEPT !.ls = Unlock(@, "led_data")]
  /\ lpc' = "poisoned"
  /\ UNCHANGED <<lsRest, fgpc, lmsg, notes_to_press, notes_pressed, cv_flag,
                 pressedSince, deliveredSince, pressedBefore, lastNote>>
  /\ UNCHANGED offLearner

\* learner.rs 213, 243: led_data.lock().unwrap() on the poisoned mutex
LearnerLedPoisoned ==
  /\ prog = "Learner"
  /\ \/ fgpc = "on_led"
     \/ fgpc = "event" /\ sheet[mi][ei].type = "NoteOff"
  /\ lpc = "poisoned"
  /\ fgpc' = "panicked"
  /\ UNCHANGED <<lsRest, lpc, lmsg, held, notes_to_press, notes_pressed, cv_flag,
                 pressedSince, deliveredSince, pressedBefore, lastNote>>
  /\ UNCHANGED offLearner

\* learner.rs 68-70, 94-96: data[index], then adapter.lock()
LsLockAdapter ==
  /\ lpc \in {"on_data", "off_data"}
  /\ get_led_index(lmsg[2]) \in DOMAIN led_data
  /\ \/ /\ lpc = "on_data"
        /\ led_data' = [led_data EXCEPT ![get_led_index(lmsg[2])] = <<1, 0, 0>>]
     \/ /\ lpc = "off_data"
        /\ led_data' = [led_data EXCEPT ![get_led_index(lmsg[2])] = Off]
  /\ Free("adapter")
  /\ held' = [held EXCEPT !.ls = Lock(@, "adapter")]
  /\ lpc' = "led_write"
  /\ UNCHANGED <<prog, sheet, tracks, mi, ei, counter, result, value, play_note,
                 sinkLog, sleeps, loopTempo, waits, strip, inputs, connected,
                 fgpc, lmsg, notes_to_press, notes_pressed, cv_flag,
                 pressedSince, deliveredSince, pressedBefore,
                 lastNote>>
  /\ UNCHANGED offLearner

\* learner.rs 70-71, 96-97: write_rgb; both guards drop
LsWrite ==
  /\ lpc = "led_write"
  /\ strip' = led_data
  /\ held' = [held EXCEPT !.ls = Unlock(Unlock(@, "adapter"), "led_data")]
  /\ lpc' = "idle"
  /\ lmsg' = <<0, 0, 0>>
  /\ UNCHANGED <<prog, sheet, tracks, mi, ei, counter, result, value, play_note,
                 sinkLog, sleeps, loopTempo, waits, led_data, inputs, connected,
                 fgpc, notes_to_press, notes_pressed, cv_flag, pressedSince, deliveredSince, pressedBefore,
                 lastNote>>
  /\ UNCHANGED offLearner

\* the steps of Learner::learn
FgStep ==
  \/ LearnerFirstLockAdapter \/ LearnerFirstLockLed \/ LearnerFirstFrame
  \/ LearnerConnect
  \/ LearnerEmptyMoment \/ LearnerBeginMoment \/ LearnerTempo
  \/ LearnerOnLockPressed \/ LearnerOnReadPressed
  \/ LearnerLockLed \/ LearnerLockAdapter \/ LearnerOnWrite
  \/ LearnerOnLockExpected \/ LearnerOnNotWithheld \/ LearnerOnInsert
  \/ LearnerOffWrite \/ LearnerOther \/ LearnerPlay \/ LearnerSkipPlay
  \/ WaitLockExpected \/ WaitCheckEmpty \/ WaitCheckAll
  \/ WaitLockCondvar \/ WaitPark \/ WaitReacquire \/ WaitAgain
  \/ LearnerMeasure \/ LearnerLockClear \/ LearnerClear \/ LearnerFinish

\* the steps of one call of handle_midi_message
LsStep ==
  \/ LsIgnored \/ LsLockPressed \/ LsPressed \/ LsLockExpected
  \/ LsOnMark \/ LsLockCondvar \/ LsNotify \/ LsOffMark \/ LsUnexpected
  \/ LsLockLed \/ LsLockAdapter \/ LsWrite

LearnerNext == FgStep \/ SpuriousWake \/ LsDeliver \/ LsStep

(***************************************************************************)
(* Specifications: one per component, the others at rest                   *)
(***************************************************************************)
NoTimer ==
  /\ tk = Ticker_new(1) /\ tkTempo = 0 /\ tkCall = NoCall /\ tkCalls = 0
  /\ tkLog = <<>>

NoControl ==
  /\ ct = ControlTicker_new(1) /\ chan = 0 /\ senderAlive = FALSE /\ sent = 0
  /\ ctpc = "idle" /\ ctCall = NoSleep /\ ctCalls = 0

\* no function is being called on its own
NoRet == [done |-> FALSE, val |-> 0]
Ret(v) == [done |-> TRUE, val |-> v]
NoFn == fnArgs = [fn |-> "none"] /\ fnRet = NoRet

NoLoop ==
  /\ prog = "none" /\ sheet = <<>>
  /\ tracks = [right |-> 0, left |-> 0, learn |-> 0]
  /\ LoopStart
  /\ fgpc = "moment"

\* a Ticker and its caller
InitTicker == TickerInit /\ NoControl /\ NoLoop /\ NoShared /\ NoFn

SpecTicker == InitTicker /\ [][TickerNext]_vars

\* a ControlTicker, its caller and the holder of the Sender
InitControl == ControlInit /\ NoTimer /\ NoLoop /\ NoShared /\ NoFn

SpecControl == InitControl /\ [][ControlNext]_vars

\* Player::play on a Sheet
InitPlay == PlayerInit /\ now = 0 /\ NoTimer /\ NoControl /\ NoFn

SpecPlay == InitPlay /\ [][PlayerNext]_vars

\* Learner::learn on a Sheet, with the input thread
InitLearn == LearnerInit /\ now = 0 /\ NoTimer /\ NoControl /\ NoFn

SpecLearn == InitLearn /\ [][LearnerNext]_vars

\* Learner::learn with the input thread, real time passing
TimedScenarios ==
  { Scenario(<< <<>>, <<Tempo(6), NoteOn(2, 97, 64), OtherMidi(2),
                       NoteOff(1, 60, 0)>>, <<>>, <<NoteOn(2, 60, 64)>> >>,
             2, 1, 2),
    Scenario(<< <<NoteOn(1, 60, 64)>>, <<NoteOn(1, 60, 64)>> >>, 2, 1, 1) }

InitLearnTimed ==
  LearnerStart(TimedScenarios) /\ now = 0 /\ NoTimer /\ NoControl /\ NoFn

NextLearnTimed == LearnerNext \/ LearnerTimePasses

SpecLearnTimed == InitLearnTimed /\ [][NextLearnTimed]_vars

\* either playback loop
InitLoops == (PlayerInit \/ LearnerInit) /\ now = 0 /\ NoTimer /\ NoControl
             /\ NoFn

NextLoops == PlayerNext \/ LearnerNext

SpecLoops == InitLoops /\ [][NextLoops]_vars

(***************************************************************************)
(* convert_hand_no_to_track (examples/learn_midi.rs)                       *)
(***************************************************************************)
\* the tracks of a file
MaxTracks == 3

\* midly track events: a NoteOn, another Midi message, a Meta event
TrackNoteOn(key) == [kind |-> "Midi", message |-> "NoteOn", key |-> key]
TrackNoteOff(key) == [kind |-> "Midi", message |-> "NoteOff", key |-> key]
TrackMeta == [kind |-> "Meta", message |-> "none", key |-> 0]

SampleTracks ==
  { <<>>, <<TrackMeta>>, <<TrackNoteOn(0)>>, <<TrackNoteOn(60)>>,
    <<TrackNoteOn(72)>>, <<TrackNoteOff(90), TrackNoteOn(72)>>,
    <<TrackNoteOn(72), TrackNoteOn(60)>>,
    <<TrackMeta, TrackNoteOn(60), TrackNoteOn(72)>> }

\* the values of --hand
HandNos == 0..3

\* learn_midi.rs 113-133: the key of the first NoteOn of a track, 0 without
FirstNoteOn(track) ==
  LET ons == {i \in 1..Len(track) :
                track[i].kind = "Midi" /\ track[i].message = "NoteOn"}
  IN IF ons = {} THEN 0
     ELSE track[CHOOSE i \in ons : \A j \in ons : i <= j].key

\* the last track is the right hand whatever the notes are
HandsByPosition(tks, hand_no) ==
  IF Len(tks) < 2 THEN <<0, 0, 0>>
  ELSE <<Len(tks) - 1, Len(tks) - 2,
         IF hand_no = 0 THEN Len(tks) - 1
         ELSE IF hand_no = 1 THEN Len(tks) - 2 ELSE 0>>

\* learn_midi.rs 93-154: <<right_hand_track, left_hand_track, learn_track>>,
\* tracks numbered from 0
convert_hand_no_to_track(tks, hand_no) ==
  LET track_count == Len(tks)
  IN IF track_count = 0 THEN <<0, 0, 0>>
     ELSE IF track_count = 1 THEN <<0, 0, 0>>
     ELSE LET first_track_index == track_count - 2
              second_track_index == track_count - 1
              first_track_note == FirstNoteOn(tks[first_track_index + 1])
              second_track_note == FirstNoteOn(tks[second_track_index + 1])
              right_hand_track == IF second_track_note > first_track_note
                                  THEN second_track_index
                                  ELSE first_track_index
              left_hand_track == IF second_track_note > first_track_note
                                 THEN first_track_index
                                 ELSE second_track_index
              learn_track == IF hand_no = 0 THEN right_hand_track
                             ELSE IF hand_no = 1 THEN left_hand_track
                             ELSE 0
          IN <<right_hand_track, left_hand_track, learn_track>>

TrackLists == UNION {[1..n -> SampleTracks] : n \in 0..MaxTracks}

HandsInit ==
  /\ \E tks \in TrackLists, h \in HandNos :
       fnArgs = [fn |-> "convert_hand_no_to_track", tracks |-> tks,
                 hand_no |-> h]
  /\ fnRet = NoRet

\* learn_midi.rs 84: the call
ConvertHandNoToTrack ==
  /\ fnArgs.fn = "convert_hand_no_to_track" /\ ~fnRet.done
  /\ fnRet' = Ret(convert_hand_no_to_track(fnArgs.tracks, fnArgs.hand_no))
  /\ UNCHANGED <<now, timerVars, controlVars, loopVars, sharedVars, driftVars,
                 fnArgs>>

InitHands == HandsInit /\ now = 0 /\ NoTimer /\ NoControl /\ NoLoop /\ NoShared

SpecHands == InitHands /\ [][ConvertHandNoToTrack]_vars

(***************************************************************************)
(* Args::run with --hand 2 (examples/learn_midi.rs 84-86): learn is given  *)
(* the track numbers convert_hand_no_to_track returns                      *)
(***************************************************************************)
\* learn_midi.rs 84-86: a Sheet whose events belong to the tracks that were
\* classified as right hand and left hand
BothHands(tks, moments) ==
  LET t == convert_hand_no_to_track(tks, 2)
  IN Scenario(moments[t[1]][t[2]], t[1], t[2], t[3])

BothScenarios ==
  { BothHands(<< <<TrackNoteOn(60)>>, <<TrackNoteOn(72)>> >>,
              [r \in 0..1 |-> [l \in 0..1 |->
                 << <<NoteOn(r, 72, 64), NoteOn(l, 60, 64)>> >>]]),
    BothHands(<< <<TrackMeta>>, <<TrackNoteOn(72)>>, <<TrackNoteOn(60)>> >>,
              [r \in 0..2 |-> [l \in 0..2 |->
                 << <<>>,
                    <<Tempo(6), NoteOn(r, 72, 64), NoteOff(r, 72, 0),
                      OtherMidi(l), NoteOn(l, 60, 64)>> >>]]) }

InitBoth == LearnerStart(BothScenarios) /\ now = 0 /\ NoTimer /\ NoControl /\ NoFn

SpecBoth == InitBoth /\ [][LearnerNext]_vars

(***************************************************************************)
(* Connection::all_notes_off, the provided method (player.rs 132-145)      *)
(***************************************************************************)
\* `for ch in 0..16`, `for note in 0..=127`
NumChannels == 16
NumNotes == 128
\* the times all_notes_off is called
Invocations == 2

\* player.rs 135-142: the event given to play
ChannelNoteOff(ch, note) ==
  [type |-> "NoteOff", track |-> 0, channel |-> ch, key |-> note, vel |-> 127]

\* a sink: play answers false for the keys from `key` on of channel `ch`
\* (of every channel if ch is None), true otherwise
Sinks == [ch : {None} \cup (0..(NumChannels - 1)), key : {0, 60, 127, NumNotes}]

SinkPlay(sink, event) ==
  ~(/\ sink.ch \in {None, event.channel}
    /\ event.key >= sink.key)

\* the i-th pass of the loops, counted from 1: channel by channel, and key by
\* key within a channel
NthNoteOff(i) == ChannelNoteOff((i - 1) \div NumNotes, (i - 1) % NumNotes)

\* a loop that ends when play answers false
StopsWhenRefused(ok) == ok

\* player.rs 135-142: `self.play(..);` is a statement, its value is dropped
AllNotesOffGoesOn(ok) == TRUE

\* player.rs 132-145: the play calls of one invocation, in order
all_notes_off(sink) ==
  LET passes == 1..(NumChannels * NumNotes)
      ends == {i \in passes : ~AllNotesOffGoesOn(SinkPlay(sink, NthNoteOff(i)))}
      made == IF ends = {} THEN NumChannels * NumNotes
              ELSE CHOOSE i \in ends : \A j \in ends : i <= j
  IN [i \in 1..made |-> NthNoteOff(i)]

\* fnRet.val holds the sequence of play calls of each invocation made
AllNotesOffInit ==
  /\ \E sink \in Sinks : fnArgs = [fn |-> "all_notes_off", sink |-> sink]
  /\ fnRet = [done |-> FALSE, val |-> <<>>]

AllNotesOff ==
  /\ fnArgs.fn = "all_notes_off"
  /\ Len(fnRet.val) < Invocations
  /\ fnRet' = [done |-> Len(fnRet.val) + 1 = Invocations,
               val |-> Append(fnRet.val, all_notes_off(fnArgs.sink))]
  /\ UNCHANGED <<now, timerVars, controlVars, loopVars, sharedVars, driftVars,
                 fnArgs>>

InitAllNotesOff ==
  AllNotesOffInit /\ now = 0 /\ NoTimer /\ NoControl /\ NoLoop /\ NoShared

SpecAllNotesOff == InitAllNotesOff /\ [][AllNotesOff]_vars

(***************************************************************************)
(* get_led_index called on its own (lib.rs 75-89)                          *)
(***************************************************************************)
\* key: u8
U8 == 0..255

\* lib.rs 88 when `key as usize * 2` is less than led_offset: the build with
\* overflow checks panics, the build without them wraps to 2^64 - short
LedPanicked == [done |-> TRUE, val |-> None, panicked |-> TRUE]
LedWrapped(short) == [done |-> TRUE, val |-> None, below_2_64 |-> short]

LedInit ==
  /\ \E key \in U8 : fnArgs = [fn |-> "get_led_index", key |-> key]
  /\ fnRet = NoRet

GetLedIndex ==
  /\ fnArgs.fn = "get_led_index" /\ ~fnRet.done
  /\ LET index == get_led_index(fnArgs.key)
     IN IF index >= 0 THEN fnRet' = Ret(index)
        ELSE fnRet' \in {LedPanicked, LedWrapped(0 - index)}
  /\ UNCHANGED <<now, timerVars, controlVars, loopVars, sharedVars, driftVars,
                 fnArgs>>

InitLed == LedInit /\ now = 0 /\ NoTimer /\ NoControl /\ NoLoop /\ NoShared

SpecLed == InitLed /\ [][GetLedIndex]_vars

(***************************************************************************)
(* Args::run (examples/learn_midi.rs 66-89) and the TryFrom conversions    *)
(***************************************************************************)
\* header.timing of the files tried
Timings == {Metrical(2), Metrical(7), Timecode(25, 40), Timecode(25, 4)}

\* the command line and what the file system, the parser and the MIDI ports
\* answer; the Sheet and the track numbers of the file are those of sheet
\* and tracks
RunInit ==
  /\ \E list, readable, parses, port \in BOOLEAN, timing \in Timings :
       fnArgs = [fn |-> "Args::run", list |-> list, readable |-> readable,
                 parses |-> parses, port |-> port, timing |-> timing]
  /\ fnRet = [done |-> FALSE, val |-> "none", at |-> "list"]
  /\ prog = "none"
  /\ LearnerState(LearnScenarios)

RunReturn(v) == [fnRet EXCEPT !.done = TRUE, !.val = v, !.at = "returned"]
RunGoes(to) == [fnRet EXCEPT !.at = to]
runRest == <<now, controlVars, loopVars, sharedVars, driftVars, fnArgs>>

\* learn_midi.rs 67-69
RunList ==
  /\ fnArgs.fn = "Args::run" /\ fnRet.at = "list"
  /\ fnRet' = IF fnArgs.list THEN RunReturn("list_devices") ELSE RunGoes("read")
  /\ UNCHANGED <<runRest, timerVars>>

\* learn_midi.rs 71: fs::read(&self.file)?
RunRead ==
  /\ fnArgs.fn = "Args::run" /\ fnRet.at = "read"
  /\ fnRet' = IF fnArgs.readable THEN RunGoes("parse") ELSE RunReturn("io::Error")
  /\ UNCHANGED <<runRest, timerVars>>

\* learn_midi.rs 72: Smf::parse(&data)?
RunParse ==
  /\ fnArgs.fn = "Args::run" /\ fnRet.at = "parse"
  /\ fnRet' = IF fnArgs.parses THEN RunGoes("timer") ELSE RunReturn("midly::Error")
  /\ UNCHANGED <<runRest, timerVars>>

\* learn_midi.rs 73: Ticker::try_from(header.timing)?
RunTimer ==
  /\ fnArgs.fn = "Args::run" /\ fnRet.at = "timer"
  /\ LET timer == Ticker_try_from(fnArgs.timing)
     IN IF timer.ok
        THEN /\ tk' = timer.val
             /\ fnRet' = RunGoes("connect")
        ELSE /\ tk' = tk
             /\ fnRet' = RunReturn(timer.val)
  /\ UNCHANGED <<runRest, tkTempo, tkCall, tkCalls, tkLog>>

\* learn_midi.rs 75: get_connection(self.device_no)?
RunConnect ==
  /\ fnArgs.fn = "Args::run" /\ fnRet.at = "connect"
  /\ fnRet' = IF fnArgs.port THEN RunGoes("learner") ELSE RunReturn("port error")
  /\ UNCHANGED <<runRest, timerVars>>

\* learn_midi.rs 77-86: the Sheet, Learner::new, the track numbers, learn
RunLearn ==
  /\ fnArgs.fn = "Args::run" /\ fnRet.at = "learner"
  /\ prog' = "Learner"
  /\ fnRet' = RunGoes("learn")
  /\ UNCHANGED <<now, timerVars, controlVars, sharedVars, driftVars, fnArgs>>
  /\ UNCHANGED <<sheet, tracks, mi, ei, counter, fgpc, result, value, play_note,
                 sinkLog, sleeps, loopTempo, waits, led_data, strip>>

\* learn_midi.rs 86-87: learn has returned
RunOk ==
  /\ fnArgs.fn = "Args::run" /\ fnRet.at = "learn"
  /\ fgpc = "returned"
  /\ fnRet' = RunReturn("Ok")
  /\ UNCHANGED <<runRest, timerVars>>

RunStep ==
  \/ RunList \/ RunRead \/ RunParse \/ RunTimer \/ RunConnect \/ RunLearn
  \/ RunOk

InitRun == RunInit /\ now = 0 /\ NoTimer /\ NoControl

NextRun == RunStep \/ LearnerNext

SpecRun == InitRun /\ [][NextRun]_vars

(***************************************************************************)
(* Ticker::duration (timers.rs 114-128)                                    *)
(***************************************************************************)
\* the Moments of a slice given to duration
MaxSlice == 3

SliceMoments ==
  { <<>>, <<Tempo(6)>>, <<NoteOn(1, 60, 64), Tempo(61)>>,
    <<Tempo(61), OtherMidi(1), Tempo(6)>> }

Slices == UNION {[1..n -> SliceMoments] : n \in 0..MaxSlice}

\* timers.rs 120-124: the Tempo events of a Moment, applied in order
RECURSIVE ApplyTempos(_, _, _)
ApplyTempos(self, events, i) ==
  IF i > Len(events) THEN self
  ELSE ApplyTempos(IF events[i].type = "Tempo"
                   THEN Ticker_change_tempo(self, events[i].vel)
                   ELSE self,
                   events, i + 1)

\* lib.rs 54-65, the provided Timer::duration: every Moment is timed with
\* sleep_duration, which moves the baseline
RECURSIVE DurationBySleepDuration(_, _, _, _)
DurationBySleepDuration(self, moments, i, total) ==
  IF i > Len(moments) THEN [self |-> self, ret |-> total]
  ELSE LET r == Ticker_sleep_duration(self, 1, 0)
       IN DurationBySleepDuration(ApplyTempos(r.self, moments[i], 1), moments,
                                  i + 1, total + r.ret)

\* timers.rs 114-128: [self |-> the timer afterwards, ret |-> the Duration]
RECURSIVE Ticker_duration(_, _, _, _)
Ticker_duration(self, moments, i, total) ==
  IF i > Len(moments) THEN [self |-> self, ret |-> total]
  ELSE Ticker_duration(ApplyTempos(self, moments[i], 1), moments, i + 1,
                       total + sleep_duration_without_readjustment(self, 1))

\* a Ticker, new or with a tempo, that has slept before or not
DurationInit ==
  /\ \E p \in TicksPerBeat, last \in {None, 5}, moments \in Slices :
       /\ \/ tk = [Ticker_new(p) EXCEPT !.last_instant = last]
          \/ \E t \in Tempos :
               tk = [Ticker_with_initial_tempo(p, t) EXCEPT !.last_instant = last]
       /\ fnArgs = [fn |-> "Ticker::duration", self |-> tk, moments |-> moments]
  /\ fnRet = NoRet
  /\ tkTempo = 0 /\ tkCall = NoCall /\ tkCalls = 0 /\ tkLog = <<>>

TickerDuration ==
  /\ fnArgs.fn = "Ticker::duration" /\ ~fnRet.done
  /\ LET r == Ticker_duration(tk, fnArgs.moments, 1, 0)
     IN tk' = r.self /\ fnRet' = Ret(r.ret)
  /\ UNCHANGED <<now, tkTempo, tkCall, tkCalls, tkLog, controlVars, loopVars,
                 sharedVars, driftVars, fnArgs>>

InitDuration == DurationInit /\ now = 0 /\ NoControl /\ NoLoop /\ NoShared

SpecDuration == InitDuration /\ [][TickerDuration]_vars

(***************************************************************************)
(* Sheet::single, Sheet::parallel and Sheet::sequential, as section 4.1    *)
(* of the specification describes them; called at learn_midi.rs 77-80      *)
(***************************************************************************)
\* the tracks a Sheet is built from
MaxSheetTracks == 3

\* a track event with its delta, in ticks
Timed(delta, kind) == [delta |-> delta, kind |-> kind]

TimedTracks ==
  { <<>>, <<Timed(0, TrackNoteOn(60))>>,
    <<Timed(0, TrackMeta), Timed(2, TrackNoteOn(72))>>,
    <<Timed(1, TrackNoteOn(60)), Timed(0, TrackNoteOff(60)),
      Timed(1, TrackMeta)>> }

\* the tick at which the i-th event of a track falls
RECURSIVE TickOf(_, _)
TickOf(track, i) == IF i = 0 THEN 0 ELSE TickOf(track, i - 1) + track[i].delta

\* the events of a track that fall on tick t, in order
RECURSIVE EventsAt(_, _, _)
EventsAt(track, t, i) ==
  IF i > Len(track) THEN <<>>
  ELSE (IF TickOf(track, i) = t THEN <<track[i].kind>> ELSE <<>>)
         \o EventsAt(track, t, i + 1)

\* one Moment for each tick of the track
Sheet_single(track) ==
  IF track = <<>> THEN <<>>
  ELSE [k \in 1..(TickOf(track, Len(track)) + 1) |-> EventsAt(track, k - 1, 1)]

SeqMax(lens) ==
  IF lens = <<>> THEN 0
  ELSE LET S == {lens[i] : i \in 1..Len(lens)}
       IN CHOOSE n \in S : \A o \in S : o <= n

\* the Moments of the tracks at index k merged, a track that has ended
\* giving the empty Moment
RECURSIVE MergedAt(_, _, _)
MergedAt(sheets, k, i) ==
  IF i > Len(sheets) THEN <<>>
  ELSE (IF k <= Len(sheets[i]) THEN sheets[i][k] ELSE <<>>)
         \o MergedAt(sheets, k, i + 1)

Sheet_parallel(tks) ==
  LET sheets == [i \in 1..Len(tks) |-> Sheet_single(tks[i])]
  IN [k \in 1..SeqMax([i \in 1..Len(tks) |-> Len(sheets[i])]) |->
        MergedAt(sheets, k, 1)]

RECURSIVE Sheet_sequential(_)
Sheet_sequential(tks) ==
  IF tks = <<>> THEN <<>>
  ELSE Sheet_single(Head(tks)) \o Sheet_sequential(Tail(tks))

SheetInit ==
  /\ \E n \in 0..MaxSheetTracks :
       \E tks \in [1..n -> TimedTracks], format \in {"Parallel", "Sequential"} :
         fnArgs = [fn |-> "Sheet", tracks |-> tks, format |-> format]
  /\ fnRet = NoRet

\* Format::Parallel built as Format::Sequential is
ParallelInSequence ==
  /\ fnArgs.fn = "Sheet" /\ fnArgs.format = "Parallel" /\ ~fnRet.done
  /\ fnRet' = Ret(Sheet_sequential(fnArgs.tracks))
  /\ UNCHANGED <<now, timerVars, controlVars, loopVars, sharedVars, driftVars,
                 fnArgs>>

\* learn_midi.rs 78
SheetSequential ==
  /\ fnArgs.fn = "Sheet" /\ fnArgs.format = "Sequential" /\ ~fnRet.done
  /\ fnRet' = Ret(Sheet_sequential(fnArgs.tracks))
  /\ UNCHANGED <<now, timerVars, controlVars, loopVars, sharedVars, driftVars,
                 fnArgs>>

\* learn_midi.rs 79
SheetParallel ==
  /\ fnArgs.fn = "Sheet" /\ fnArgs.format = "Parallel" /\ ~fnRet.done
  /\ fnRet' = Ret(Sheet_parallel(fnArgs.tracks))
  /\ UNCHANGED <<now, timerVars, controlVars, loopVars, sharedVars, driftVars,
                 fnArgs>>

InitSheet == SheetInit /\ now = 0 /\ NoTimer /\ NoControl /\ NoLoop /\ NoShared

NextSheet == SheetSequential \/ SheetParallel

SpecSheet == InitSheet /\ [][NextSheet]_vars

(***************************************************************************)
(* extract_meta_events (examples/learn_midi.rs 156-170)                    *)
(***************************************************************************)
\* the Moments of a Sheet given to extract_meta_events
MaxMetaMoments == 3

MetaMoments ==
  { <<>>, <<Tempo(6)>>, <<NoteOn(1, 60, 64)>>,
    <<NoteOn(1, 60, 64), Tempo(6), KeySignature, NoteOff(1, 60, 0)>>,
    <<KeySignature, OtherMidi(2), Tempo(61)>> }

\* Moment::default()
MomentDefault == <<>>

\* a filter that keeps the Tempo events only
KeepsTempoOnly(input) ==
  [k \in 1..Len(input) |-> SelectSeq(input[k], LAMBDA e : e.type = "Tempo")]

\* learn_midi.rs 156-170, on the clone of the Sheet
extract_meta_events(input) ==
  [k \in 1..Len(input) |->
     IF ~is_empty(input[k])
     THEN LET events == SelectSeq(input[k], LAMBDA e : ~IsMidi(e))
          IN IF events = <<>> THEN MomentDefault ELSE events
     ELSE input[k]]

\* the caller's Sheet is in sheet
MetaInit ==
  /\ prog = "none"
  /\ \E n \in 0..MaxMetaMoments : sheet \in [1..n -> MetaMoments]
  /\ tracks = [right |-> 0, left |-> 0, learn |-> 0]
  /\ LoopStart
  /\ fgpc = "moment"
  /\ fnArgs = [fn |-> "extract_meta_events", sheet |-> sheet]
  /\ fnRet = NoRet

ExtractMetaEvents ==
  /\ fnArgs.fn = "extract_meta_events" /\ ~fnRet.done
  /\ fnRet' = Ret(extract_meta_events(sheet))
  /\ UNCHANGED <<now, timerVars, controlVars, loopVars, sharedVars, driftVars,
                 fnArgs>>

InitMeta == MetaInit /\ now = 0 /\ NoTimer /\ NoControl /\ NoShared

SpecMeta == InitMeta /\ [][ExtractMetaEvents]_vars

(***************************************************************************)
(* Player::play over Sheets with runs of empty Moments                     *)
(***************************************************************************)
\* the longest Sheet whose ticks are counted
MaxTickMoments == 4

TickMoments == { <<>>, <<OtherMidi(1)>>, <<Tempo(6), NoteOn(1, 60, 64)>> }

InitTicks ==
  /\ prog = "Player"
  /\ sheet \in SeqsUpTo(TickMoments, MaxTickMoments)
  /\ tracks = [right |-> 0, left |-> 0, learn |-> 0]
  /\ LoopStart
  /\ fgpc = "moment"
  /\ NoShared
  /\ now = 0 /\ NoTimer /\ NoControl /\ NoFn

NextTicks == PlayerNext

SpecTicks == InitTicks /\ [][NextTicks]_vars

(***************************************************************************)
(* Learner::learn with input messages for keys outside the LED frame       *)
(***************************************************************************)
\* whether the build checks integer overflow (lib.rs 88)
InitListen ==
  /\ LearnerStart(TimedScenarios) /\ now = 0 /\ NoTimer /\ NoControl
  /\ \E checks \in BOOLEAN : fnArgs = [fn |-> "learn", overflow_checks |-> checks]
  /\ fnRet = NoRet

NextListen == LearnerNext \/ LsDeliverFar \/ LsIndexPanics \/ LearnerLedPoisoned

SpecListen == InitListen /\ [][NextListen]_vars

(***************************************************************************)
(* FixedTempo (timers.rs 146-176).  The wrapped u64 and the durations, in  *)
(* microseconds, are bit sequences, most significant bit first, without    *)
(* leading zeros.                                                          *)
(***************************************************************************)
\* the width of the wrapped value
U64Bits == 64

\* FixedTempo(m) for m given directly (the field is pub) and for the two
\* Timecode timings of Timings
WrappedValues ==
  {Bin(0), Bin(1), Bin(2), Bin(1000), <<1>> \o Zeros(U64Bits - 1),
   [i \in 1..U64Bits |-> 1]}
    \cup {Bin(FixedTempo_try_from(t).val) : t \in {Timecode(25, 40), Timecode(25, 4)}}

FixedTicks == {0, 1, 2, 7, 4095}

\* Duration::from_micros
MicrosOfMicros(v) == StripZeros(v)

\* timers.rs 171: Duration::from_millis(v), in microseconds
MicrosOfMillis(v) == StripZeros(MulBits(v, 1000, 0))

\* timers.rs 170-172: `self.0 * n_ticks as u64` in u64, which panics on
\* overflow in a build with overflow checks and wraps otherwise
FixedTempo_sleep_duration(self, n_ticks, overflow_checks) ==
  LET product == StripZeros(MulBits(self, n_ticks, 0))
  IN IF Len(product) > U64Bits /\ overflow_checks
     THEN [done |-> TRUE, val |-> <<>>, panicked |-> TRUE,
           call |-> "sleep_duration", arg |-> n_ticks, before |-> self]
     ELSE [done |-> TRUE, panicked |-> FALSE,
           val |-> MicrosOfMillis(
                     IF Len(product) > U64Bits
                     THEN StripZeros(SubSeq(product, Len(product) - U64Bits + 1,
                                            Len(product)))
                     ELSE product),
           call |-> "sleep_duration", arg |-> n_ticks, before |-> self]

\* timers.rs 174-175: `fn change_tempo(&mut self, _: u32) {}`
FixedTempo_change_tempo(self, tempo) == self

FixedInit ==
  /\ \E m \in WrappedValues, checks \in BOOLEAN :
       fnArgs = [fn |-> "FixedTempo", self |-> m, overflow_checks |-> checks]
  /\ fnRet = NoRet

FixedSleepDuration ==
  /\ fnArgs.fn = "FixedTempo"
  /\ fnRet.done => ~fnRet.panicked
  /\ \E n_ticks \in FixedTicks :
       fnRet' = FixedTempo_sleep_duration(fnArgs.self, n_ticks,
                                          fnArgs.overflow_checks)
  /\ UNCHANGED <<now, timerVars, controlVars, loopVars, sharedVars, driftVars,
                 fnArgs>>

FixedChangeTempo ==
  /\ fnArgs.fn = "FixedTempo"
  /\ fnRet.done => ~fnRet.panicked
  /\ \E tempo \in Tempos :
       /\ fnArgs' = [fnArgs EXCEPT !.self = FixedTempo_change_tempo(@, tempo)]
       /\ fnRet' = [done |-> TRUE, val |-> <<>>, panicked |-> FALSE,
                    call |-> "change_tempo", arg |-> tempo,
                    before |-> fnArgs.self]
  /\ UNCHANGED <<now, timerVars, controlVars, loopVars, sharedVars, driftVars>>

InitFixed == FixedInit /\ now = 0 /\ NoTimer /\ NoControl /\ NoLoop /\ NoShared

NextFixed == FixedSleepDuration \/ FixedChangeTempo

SpecFixed == InitFixed /\ [][NextFixed]_vars

(***************************************************************************)
(* A Ticker and a ControlTicker given the same calls at the same instants, *)
(* nothing being sent on the pause channel                                 *)
(***************************************************************************)
\* timers.rs 298-302: the Tempo events of a Moment, applied in order
RECURSIVE ControlApplyTempos(_, _, _)
ControlApplyTempos(self, events, i) ==
  IF i > Len(events) THEN self
  ELSE ControlApplyTempos(IF events[i].type = "Tempo"
                          THEN ControlTicker_change_tempo(self, events[i].vel)
                          ELSE self,
                          events, i + 1)

\* a duration that times every Moment with sleep_duration
RECURSIVE ControlDurationBySleepDuration(_, _, _, _)
ControlDurationBySleepDuration(self, moments, i, total) ==
  IF i > Len(moments) THEN [self |-> self, ret |-> total]
  ELSE LET r == ControlTicker_sleep_duration(self, 1, 0)
       IN ControlDurationBySleepDuration(
            ControlApplyTempos(r.self, moments[i], 1), moments, i + 1,
            total + r.ret)

\* timers.rs 292-306: [self |-> the timer afterwards, ret |-> the Duration]
RECURSIVE ControlTicker_duration(_, _, _, _)
ControlTicker_duration(self, moments, i, total) ==
  IF i > Len(moments) THEN [self |-> self, ret |-> total]
  ELSE ControlTicker_duration(
         ControlApplyTempos(self, moments[i], 1), moments, i + 1,
         total + ControlTicker_sleep_duration_without_readjustment(self, 1))

PairSlices ==
  { <<>>, << <<Tempo(61)>> >>, << <<OtherMidi(1)>>, <<Tempo(6), Tempo(61)>> >> }

\* Ticker::new and ControlTicker::new, or both with_initial_tempo, with the
\* same arguments; the Sender of the pause channel is held by somebody
PairInit ==
  /\ now = 0
  /\ \E p \in TicksPerBeat :
       \/ /\ tk = Ticker_new(p) /\ ct = ControlTicker_new(p)
          /\ tkTempo = 0
       \/ \E t \in Tempos :
            /\ tk = Ticker_with_initial_tempo(p, t)
            /\ ct = ControlTicker_with_initial_tempo(p, t)
            /\ tkTempo = t
  /\ tkCall = NoCall /\ tkCalls = 0 /\ tkLog = <<>>
  /\ chan = 0 /\ senderAlive = TRUE /\ sent = 0
  /\ ctpc = "idle" /\ ctCall = NoSleep /\ ctCalls = 0

pairRest == <<loopVars, sharedVars, driftVars, fnVars, chan, sent, ctpc, tkLog>>

\* change_tempo(t) on both
PairChangeTempo ==
  /\ tkCalls < MaxCalls
  /\ \E t \in Tempos, d \in Delays :
       /\ now' = now + d
       /\ tk' = Ticker_change_tempo(tk, t)
       /\ ct' = ControlTicker_change_tempo(ct, t)
       /\ tkTempo' = t
       /\ tkCall' = [NoCall EXCEPT !.op = "change_tempo", !.tempo = t, !.at = now']
       /\ ctCall' = [NoSleep EXCEPT !.at = now', !.done = TRUE]
  /\ tkCalls' = tkCalls + 1 /\ ctCalls' = ctCalls + 1
  /\ UNCHANGED <<pairRest, senderAlive>>

\* sleep_duration(n) on both
PairSleepDuration ==
  /\ tkCalls < MaxCalls
  /\ \E n \in TickCounts, d \in Delays :
       LET r == Ticker_sleep_duration(tk, n, now + d)
           c == ControlTicker_sleep_duration(ct, n, now + d)
       IN /\ now' = now + d
          /\ tk' = r.self /\ ct' = c.self
          /\ tkCall' = [op |-> "sleep_duration", n |-> n, ret |-> r.ret,
                        base |-> tk.last_instant, at |-> now', tempo |-> 0]
          /\ ctCall' = [NoSleep EXCEPT !.n = n, !.ret = c.ret, !.at = now',
                                       !.base = ct.last_instant, !.done = TRUE]
  /\ tkCalls' = tkCalls + 1 /\ ctCalls' = ctCalls + 1
  /\ UNCHANGED <<pairRest, tkTempo, senderAlive>>

\* sleep(n) on both: lib.rs 42-48 for the Ticker; timers.rs 274-290 for the
\* ControlTicker, whose try_recv() finds the channel empty, or empty and
\* disconnected, and in both cases is not Ok
PairSleep ==
  /\ tkCalls < MaxCalls
  /\ chan = 0
  /\ \E n \in TickCounts, d \in Delays :
       LET r == Ticker_sleep_duration(tk, n, now + d)
           c == ControlTicker_sleep_duration(ct, n, now + d)
       IN /\ now' = now + d + r.ret
          /\ tk' = r.self /\ ct' = c.self
          /\ tkCall' = [op |-> "sleep", n |-> n, ret |-> r.ret,
                        base |-> tk.last_instant, at |-> now + d, tempo |-> 0]
          /\ ctCall' = [NoSleep EXCEPT !.n = n, !.ret = c.ret, !.at = now + d,
                                       !.base = ct.last_instant, !.done = TRUE]
  /\ tkCalls' = tkCalls + 1 /\ ctCalls' = ctCalls + 1
  /\ UNCHANGED <<pairRest, tkTempo, senderAlive>>

\* duration(moments) on both
PairDuration ==
  /\ tkCalls < MaxCalls
  /\ \E moments \in PairSlices, d \in Delays :
       LET r == Ticker_duration(tk, moments, 1, 0)
           c == ControlTicker_duration(ct, moments, 1, 0)
       IN /\ now' = now + d
          /\ tk' = r.self /\ ct' = c.self
          /\ tkCall' = [NoCall EXCEPT !.op = "duration", !.ret = r.ret,
                                      !.base = tk.last_instant, !.at = now']
          /\ ctCall' = [NoSleep EXCEPT !.ret = c.ret, !.at = now',
                                       !.base = ct.last_instant, !.done = TRUE]
  /\ tkCalls' = tkCalls + 1 /\ ctCalls' = ctCalls + 1
  /\ UNCHANGED <<pairRest, tkTempo, senderAlive>>

\* the Sender is dropped without anything having been sent
PairDropSender ==
  /\ senderAlive /\ chan = 0
  /\ senderAlive' = FALSE
  /\ UNCHANGED <<now, timerVars, ct, ctCall, ctCalls, pairRest>>

InitPair == PairInit /\ NoLoop /\ NoShared /\ NoFn

NextPair ==
  \/ PairChangeTempo \/ PairSleepDuration \/ PairSleep \/ PairDuration
  \/ PairDropSender

SpecPair == InitPair /\ [][NextPair]_vars

(***************************************************************************)
(* Properties of the timers                                                *)
(***************************************************************************)
SleepCall == tkCall.op \in {"sleep", "sleep_duration"}

\* C7: with a recorded baseline, sleep_duration(n) returns the nominal
\* duration less the time elapsed since that baseline, and zero when more
\* time has elapsed than the nominal duration.
C7_RemainderClampedToZero ==
  (SleepCall /\ tkCall.base # None) =>
    LET nominal == sleep_duration_without_readjustment(tk, tkCall.n)
        elapsed == IF tkCall.at >= tkCall.base THEN tkCall.at - tkCall.base ELSE 0
    IN tkCall.ret = IF elapsed > nominal THEN 0 ELSE nominal - elapsed

\* C7: a call made later than its whole nominal duration after the baseline
C7_Overrun ==
  /\ SleepCall /\ tkCall.base # None
  /\ tkCall.at - tkCall.base > sleep_duration_without_readjustment(tk, tkCall.n)
  /\ sleep_duration_without_readjustment(tk, tkCall.n) > 0
  /\ tkCall.ret = sleep_duration_without_readjustment(tk, tkCall.n)

\* C8: the first sleep_duration(n) after tempo T was set on a Ticker of P
\* ticks per beat is floor(T * n / P) microseconds, or one microsecond less
\* when P divides T * n (the quotient T / P is rounded before it is
\* multiplied); on a Ticker whose tempo was never set every sleep_duration
\* is zero.
C8_FirstSleepWithinOne ==
  /\ (SleepCall /\ tkTempo = 0) => tkCall.ret = 0
  /\ (SleepCall /\ tkTempo # 0 /\ tkCall.base = None) =>
       LET x == tkTempo * tkCall.n
           q == x \div tk.ticks_per_beat
       IN \/ tkCall.ret = q
          \/ x % tk.ticks_per_beat = 0 /\ tkCall.ret = q - 1

\* C8: the first sleep_duration(n) is exactly floor(T * n / P) microseconds.
C8_FirstSleepExact ==
  (SleepCall /\ tkCall.base = None) =>
    tkCall.ret = (tkTempo * tkCall.n) \div tk.ticks_per_beat

\* C8: a first sleep whose duration falls one microsecond short
C8_OneShort ==
  /\ SleepCall /\ tkCall.base = None /\ tkTempo # 0
  /\ (tkTempo * tkCall.n) % tk.ticks_per_beat = 0
  /\ tkCall.ret = (tkTempo * tkCall.n) \div tk.ticks_per_beat - 1

\* C9: a sleep that found a signal pending waits for a second signal before
\* its tick-derived sleep, then sleeps the full nominal duration from a
\* fresh baseline; a sleep that found none takes nothing off the channel.
C9_PauseThenFullSleep ==
  /\ ctpc = "recv" =>
       ctCall.pending /\ ~ctCall.done /\ ctCall.received = 1
  /\ (ctCall.done /\ ctCall.pending) =>
       /\ ctCall.received = 2
       /\ ctCall.base = None
       /\ ctCall.ret = ControlTicker_sleep_duration_without_readjustment(ct, ctCall.n)
  /\ (ctCall.done /\ ~ctCall.pending) => ctCall.received = 0

\* C9: the second sleep of a ControlTicker, resumed after a pause
C9_ResumedAfterPause ==
  /\ ctCalls = 2 /\ ctCall.done /\ ctCall.pending
  /\ ctCall.ret > 0 /\ ctCall.at > 0

(***************************************************************************)
(* Properties of Player::play                                              *)
(***************************************************************************)
\* C6: when Player::play has returned, by completion or by rejection, the
\* last frame written to the strip is the all-off frame.
C6_ExitFrameAllOff ==
  (prog = "Player" /\ fgpc = "returned") => strip = AllOff

\* C6: play has returned false with a key's LED still lit
C6_RejectedWithLitKey ==
  prog = "Player" /\ fgpc = "returned" /\ result = "false" /\ strip # AllOff

(***************************************************************************)
(* Properties of Learner::learn and the input thread                       *)
(***************************************************************************)
\* C1: the foreground leaves wait_for_keys only by a check it makes while it
\* holds the lock of notes_to_press and that finds the map empty or every
\* entry true; only through that does it clear the map and go to the next
\* Moment; after any wake of the condition variable it checks again.
C1_LeavesWaitOnlyByLockedCheck ==
  [][/\ (fgpc' = "after_wait" /\ fgpc # "after_wait") =>
          /\ \E i \in 1..Len(held.fg) : held.fg[i] = "notes_to_press"
          /\ \/ DOMAIN notes_to_press = {}
             \/ \A k \in DOMAIN notes_to_press : notes_to_press[k]
     /\ (fgpc' = "measured" /\ fgpc # "measured") => fgpc = "after_wait"
     /\ (fgpc' = "clear" /\ fgpc # "clear") => fgpc = "measured"
     /\ (prog = "Learner" /\ mi' # mi /\ ~is_empty(sheet[mi])) => fgpc = "clear"
     /\ (fgpc \in {"cv_parked", "cv_woken", "cv_back"} /\ fgpc' # fgpc) =>
          fgpc' \in {"cv_woken", "cv_back", "wait_empty"}
    ]_vars

\* C1: the wait is over, two keys were expected and a notification was sent
C1_LeftWaitAllPressed ==
  /\ fgpc = "after_wait" /\ cv_flag
  /\ Cardinality(DOMAIN notes_to_press) = 2

\* C2: the foreground is never blocked in Condvar::wait while every expected
\* entry is true and the input thread is idle, a state that only a further
\* message or a spurious wake would end.
C2_NotParkedWhenAllPressed ==
  ~(fgpc = "cv_parked" /\ lpc = "idle"
      /\ DOMAIN notes_to_press # {} /\ AllPressed(notes_to_press))

\* C2: a notification sent between the foreground's check and its wait
C2_NotifiedBeforeWait ==
  fgpc \in {"cv_lock", "cv_wait"} /\ cv_flag /\ AllPressed(notes_to_press)

\* C3: when every expected key has had a NoteOn since it was inserted, the
\* foreground's check of the map passes, whatever NoteOff came after.
C3_FirstPressPassesCheck ==
  (fgpc = "wait_all_locked" /\ DOMAIN notes_to_press \subseteq pressedSince)
    => AllPressed(notes_to_press)

\* C3: the expected key was pressed and released before the check
C3_ReleasedBeforeCheck ==
  /\ fgpc = "wait_all_locked"
  /\ DOMAIN notes_to_press = {60} /\ pressedSince = {60}
  /\ ~notes_to_press[60]

\* C4: no note event of the practice track with a key in 36..=96, NoteOn of
\* any velocity or NoteOff, is passed to Connection::play.
C4_PracticeNotesNeverPlayed ==
  prog = "Learner" =>
    \A i \in 1..Len(sinkLog) :
      ~(/\ sinkLog[i].event.type \in {"NoteOn", "NoteOff"}
        /\ sinkLog[i].event.track = tracks.learn
        /\ sinkLog[i].event.key >= 36 /\ sinkLog[i].event.key <= 96)

\* C4: a NoteOn of velocity 0 of the practice track has been played
C4_ZeroVelocityPlayed ==
  /\ prog = "Learner"
  /\ \E i \in 1..Len(sinkLog) :
       /\ sinkLog[i].event.type = "NoteOn" /\ sinkLog[i].event.vel = 0
       /\ sinkLog[i].event.track = tracks.learn

\* C5: a rejected event is the last one passed to the sink, the call has
\* then returned false, and nothing is played, slept or waited for after a
\* return; a call returns true only after the last Moment with no rejection.
C5_RejectionEndsPlayback ==
  /\ [](/\ \A i \in 1..Len(sinkLog) :
             ~sinkLog[i].ok =>
               i = Len(sinkLog) /\ fgpc = "returned" /\ result = "false"
        /\ result = "false" => (sinkLog # <<>> /\ ~sinkLog[Len(sinkLog)].ok)
        /\ result = "true" =>
             /\ fgpc = "returned" /\ mi = Len(sheet) + 1
             /\ \A i \in 1..Len(sinkLog) : sinkLog[i].ok
        /\ fgpc = "returned" => result \in {"true", "false"})
  /\ [][fgpc = "returned" =>
          /\ sinkLog' = sinkLog /\ sleeps' = sleeps /\ waits' = waits
          /\ fgpc' = "returned" /\ result' = result]_vars

\* C5: Player::play rejected after an accepted event, a Moment still to come
C5_RejectedMidSheet ==
  /\ prog = "Player" /\ result = "false"
  /\ Len(sinkLog) >= 2 /\ mi < Len(sheet)

\* C10: a thread holds at most one of the locks of notes_to_press,
\* notes_pressed and led_data; once the input thread exists a second lock is
\* only the adapter's inside led_data's or the condvar mutex's inside
\* notes_to_press's; the two threads are never both stopped at a lock.
C10_LockDiscipline ==
  /\ \A t \in Threads :
       Cardinality({i \in 1..Len(held[t]) :
          held[t][i] \in {"notes_to_press", "notes_pressed", "led_data"}}) <= 1
  /\ fgpc \notin {"start", "first_frame", "first_write"} =>
       \A t \in Threads :
         held[t] \in {<<>>, <<"notes_to_press">>, <<"notes_pressed">>,
                      <<"led_data">>, <<"condvar">>, <<"led_data", "adapter">>,
                      <<"notes_to_press", "condvar">>}
  /\ ~(/\ fgpc \notin {"returned", "cv_parked"} /\ ~ENABLED FgStep
       /\ lpc # "idle" /\ ~ENABLED LsStep)

\* C10: the foreground waits for the condvar mutex that the input thread
\* holds inside notes_to_press
C10_ContendedCondvar ==
  fgpc = "cv_lock" /\ held.ls = <<"notes_to_press", "condvar">>

\* C11: the sleep of the first non-empty Moment is passed the adjustment
\* zero, the sleep of every later non-empty Moment the time measured for the
\* non-empty Moment before it, which is the real time from the start of that
\* Moment's event processing to the end of its key wait; the tick counter
\* passed is the distance in Moments from the previous non-empty Moment (from
\* the first Moment, for the first sleep).
C11_DriftFeedback ==
  /\ [](prog = "Learner" =>
          LET ne == {j \in 1..Len(sheet) : ~is_empty(sheet[j])}
              idx(i) == CHOOSE j \in ne : Cardinality({k \in ne : k < j}) = i - 1
          IN /\ Len(adjusts) = Len(sleeps)
             /\ Len(measured) \in {Len(adjusts) - 1, Len(adjusts)}
             /\ \A i \in 1..Len(adjusts) :
                  /\ adjusts[i] = IF i = 1 THEN 0 ELSE measured[i - 1]
                  /\ sleeps[i] = idx(i) - (IF i = 1 THEN 1 ELSE idx(i - 1)))
  /\ [][/\ Len(sleeps') > Len(sleeps) => start_time' = now
        /\ start_time' # start_time => Len(sleeps') > Len(sleeps)
        /\ Len(measured') > Len(measured) =>
             /\ fgpc = "after_wait"
             /\ measured' = Append(measured, now - start_time)
    ]_vars

\* C11: a measured time was passed on across an empty Moment
C11_AdjustedAfterEmptyMoment ==
  /\ prog = "Learner" /\ Len(adjusts) = 2
  /\ adjusts[2] > 0 /\ sleeps = <<1, 2>>

\* C12: a practice NoteOn for a key found in notes_pressed still inserts the
\* key as false, and the wait of that Moment is not over before the callback
\* has been entered with a NoteOn for the key after the insertion.
C12_PriorPressDoesNotSatisfyWait ==
  /\ [](fgpc = "after_wait" =>
          (pressedBefore \cap DOMAIN notes_to_press) \subseteq deliveredSince)
  /\ [][(fgpc = "on_insert" /\ fgpc' # fgpc /\ value = 2) =>
          /\ Ev.key \in DOMAIN notes_to_press'
          /\ ~notes_to_press'[Ev.key]
          /\ Ev.key \in pressedBefore'
       ]_vars

\* C12: the wait is over for a key that was found pressed, inserted as false
\* and marked by a callback that had been entered before the insertion
C12_MarkedByEarlierCallback ==
  /\ fgpc = "after_wait"
  /\ \E k \in pressedBefore \cap DOMAIN notes_to_press :
       /\ k \notin deliveredSince
       /\ k \in pressedSince /\ notes_to_press[k]

\* the two tracks convert_hand_no_to_track looked at, and their first notes
HandsCalled == fnArgs.fn = "convert_hand_no_to_track" /\ fnRet.done
HandsRet == fnRet.val
LastTwo == {Len(fnArgs.tracks) - 2, Len(fnArgs.tracks) - 1}
NoteOfTrack(t) == FirstNoteOn(fnArgs.tracks[t + 1])

\* C13: with two tracks or more the right hand is the one of the last two
\* tracks whose first NoteOn key is higher and the left hand is the other;
\* with fewer than two tracks all three numbers are 0.
C13_HigherFirstNoteIsRightHand ==
  HandsCalled =>
    IF Len(fnArgs.tracks) < 2 THEN HandsRet = <<0, 0, 0>>
    ELSE /\ {HandsRet[1], HandsRet[2]} = LastTwo
         /\ NoteOfTrack(HandsRet[1]) > NoteOfTrack(HandsRet[2])

\* C13 as the code has it: a track without NoteOn counts as key 0; the right
\* hand is the track with the higher first key, and with equal first keys the
\* last track but one; the practice track is the right hand for hand 0, the
\* left hand for hand 1 and 0 for any other value.
C13_HigherFirstNoteOrEarlierTrack ==
  HandsCalled =>
    IF Len(fnArgs.tracks) < 2 THEN HandsRet = <<0, 0, 0>>
    ELSE /\ {HandsRet[1], HandsRet[2]} = LastTwo /\ HandsRet[1] # HandsRet[2]
         /\ NoteOfTrack(HandsRet[1]) >= NoteOfTrack(HandsRet[2])
         /\ NoteOfTrack(HandsRet[1]) = NoteOfTrack(HandsRet[2]) => HandsRet[1] < HandsRet[2]
         /\ HandsRet[3] = IF fnArgs.hand_no = 0 THEN HandsRet[1]
                       ELSE IF fnArgs.hand_no = 1 THEN HandsRet[2] ELSE 0

\* C13: three tracks, the last two starting with keys 72 and 60 after other
\* events, classified with the higher one first in the slice
C13_HigherTrackFirstInSlice ==
  /\ HandsCalled /\ Len(fnArgs.tracks) = 3
  /\ NoteOfTrack(1) = 72 /\ NoteOfTrack(2) = 60
  /\ fnArgs.tracks[2][1].message # "NoteOn"
  /\ HandsRet = <<1, 2, 2>>

\* a NoteOn of the right-hand or left-hand track that a learner has to play
HandNoteOn(e) ==
  /\ e.type = "NoteOn" /\ e.vel # 0 /\ e.key >= 36 /\ e.key <= 96
  /\ e.track \in {tracks.right, tracks.left}

\* C14: with hand 2 the practice track is 0, no NoteOn of the right-hand or of
\* the left-hand track with a key in 36..=96 reaches the sink, and learn does
\* not get past a Moment that holds one before a key was pressed.
C14_BothHandsWithheld ==
  prog = "Learner" =>
    /\ tracks.learn = 0
    /\ \A i \in 1..Len(sinkLog) : ~HandNoteOn(sinkLog[i].event)
    /\ \A j \in 1..Len(sheet) :
         (mi > j /\ \E i \in 1..Len(sheet[j]) : HandNoteOn(sheet[j][i]))
           => inputs > 0

\* C14: learn has returned true, both hands' notes were played by the sink and
\* no message came from the keyboard
C14_BothHandsPlayedUnpressed ==
  /\ prog = "Learner" /\ tracks.learn = 0 /\ result = "true"
  /\ inputs = 0
  /\ \E i, j \in 1..Len(sinkLog) :
       /\ HandNoteOn(sinkLog[i].event) /\ HandNoteOn(sinkLog[j].event)
       /\ sinkLog[i].event.track = tracks.right
       /\ sinkLog[j].event.track = tracks.left

\* C15: get_led_index(key) is key*2 - offset, offset 39 below 56, 40 below 69,
\* 41 below 93 and 42 from 93 on, wherever that is not negative; 55, 56, 92
\* and 93 give 71, 72, 143 and 144.
C15_LedIndexByBand ==
  (fnArgs.fn = "get_led_index" /\ fnRet.done) =>
    LET key == fnArgs.key
        offset == CASE key < 56 -> 39
                    [] key >= 56 /\ key < 69 -> 40
                    [] key >= 69 /\ key < 93 -> 41
                    [] key >= 93 -> 42
    IN /\ key * 2 - offset >= 0 => fnRet.val = key * 2 - offset
       /\ key = 55 => fnRet.val = 71
       /\ key = 56 => fnRet.val = 72
       /\ key = 92 => fnRet.val = 143
       /\ key = 93 => fnRet.val = 144

\* C15: the first key of the last band has been mapped
C15_Key93Mapped ==
  fnArgs.fn = "get_led_index" /\ fnRet.done /\ fnArgs.key = 93 /\ fnRet.val = 144

\* C16: every invocation of all_notes_off calls play with NoteOff for channel
\* 0..15 and, within a channel, key 0..127, in that order, once each and
\* whatever play answers; two invocations made the same calls.
C16_AllNotesOffCalls ==
  fnArgs.fn = "all_notes_off" =>
    /\ \A n \in 1..Len(fnRet.val) :
         /\ Len(fnRet.val[n]) = 2048
         /\ \A i \in 1..Len(fnRet.val[n]) :
              fnRet.val[n][i] = [type |-> "NoteOff", track |-> 0,
                                 channel |-> (i - 1) \div 128,
                                 key |-> (i - 1) % 128, vel |-> 127]
    /\ \A n, m \in 1..Len(fnRet.val) : fnRet.val[n] = fnRet.val[m]

\* C16: two invocations were made on a sink that answers false for the upper
\* keys of channel 9
C16_TwiceWithRefusal ==
  /\ fnArgs.fn = "all_notes_off" /\ Len(fnRet.val) = 2
  /\ fnArgs.sink = [ch |-> 9, key |-> 60]
  /\ ~SinkPlay(fnArgs.sink, fnRet.val[2][9 * 128 + 61])

\* C17: Ticker::try_from answers TimeFormatError exactly for a Timing that is
\* not Metrical and FixedTempo::try_from exactly for one that is not Timecode;
\* when run gets to the conversion with such a Timing it returns that error,
\* and then no Learner was created, nothing was played, no LED frame written
\* and no listener started; nothing happens after the return.
C17_TimingRejectedBeforeLearner ==
  /\ [](fnArgs.fn = "Args::run" =>
          /\ LET ticker == Ticker_try_from(fnArgs.timing)
                 fixed == FixedTempo_try_from(fnArgs.timing)
             IN /\ ~ticker.ok <=> fnArgs.timing.kind # "Metrical"
                /\ ~ticker.ok => ticker.val = "TimeFormatError"
                /\ ~fixed.ok <=> fnArgs.timing.kind # "Timecode"
                /\ ~fixed.ok => fixed.val = "TimeFormatError"
          /\ (fnRet.at \in {"connect", "learner", "learn"} \/ fnRet.val = "Ok")
               => fnArgs.timing.kind = "Metrical"
          /\ fnRet.val = "TimeFormatError" =>
               /\ fnArgs.timing.kind # "Metrical" /\ fnRet.done
               /\ prog # "Learner" /\ fgpc = "start"
               /\ sinkLog = <<>> /\ ~connected /\ inputs = 0
               /\ held = [fg |-> <<>>, ls |-> <<>>]
               /\ tk = Ticker_new(1))
  /\ [][fnRet.val = "TimeFormatError" => UNCHANGED vars]_vars

\* C17: a file with Timecode timing was read and parsed and run has returned
C17_TimecodeFileRejected ==
  /\ fnArgs.fn = "Args::run" /\ fnArgs.timing.kind = "Timecode"
  /\ fnArgs.readable /\ fnArgs.parses /\ ~fnArgs.list
  /\ fnRet.done /\ fnRet.val = "TimeFormatError"

\* the Tempo values of the first n Moments of the slice, in order
RECURSIVE TemposUpTo(_)
TemposUpTo(n) ==
  IF n = 0 THEN <<>>
  ELSE LET m == fnArgs.moments[n]
           RECURSIVE Vals(_)
           Vals(i) == IF i > Len(m) THEN <<>>
                      ELSE (IF m[i].type = "Tempo" THEN <<m[i].vel>> ELSE <<>>)
                             \o Vals(i + 1)
       IN TemposUpTo(n - 1) \o Vals(1)

\* micros_per_tick after the first n Moments of the slice
MicrosAfter(n) ==
  LET ts == TemposUpTo(n)
  IN IF ts = <<>> THEN fnArgs.self.micros_per_tick
     ELSE F64Div(ts[Len(ts)], fnArgs.self.ticks_per_beat)

\* the nominal length of one tick at every Moment up to the n-th, added up
RECURSIVE NominalSum(_)
NominalSum(n) ==
  IF n = 0 THEN 0
  ELSE NominalSum(n - 1)
         + (IF MicrosAfter(n - 1) = F64Zero THEN 0
            ELSE F64ToU64(MicrosAfter(n - 1)))

\* C18: Ticker::duration returns the sum, over the Moments, of the length of
\* one tick at the tempo in effect before the Moment's own Tempo events; the
\* tempo afterwards is that of the last Tempo event of the slice, or the old
\* one; last_instant, ticks_per_beat and speed are as before.
C18_DurationSumsNominalTicks ==
  (fnArgs.fn = "Ticker::duration" /\ fnRet.done) =>
    /\ fnRet.val = NominalSum(Len(fnArgs.moments))
    /\ tk.micros_per_tick = MicrosAfter(Len(fnArgs.moments))
    /\ tk.last_instant = fnArgs.self.last_instant
    /\ tk.ticks_per_beat = fnArgs.self.ticks_per_beat
    /\ tk.speed = fnArgs.self.speed

\* C18: a Ticker that has slept before timed a slice whose tempo changes
\* twice, the second time within the last Moment
C18_TempoChangedInLastMoment ==
  /\ fnArgs.fn = "Ticker::duration" /\ fnRet.done
  /\ fnArgs.self.last_instant = 5
  /\ fnArgs.self.micros_per_tick # F64Zero
  /\ Len(fnArgs.moments) = 3
  /\ fnArgs.moments[2] = <<Tempo(6)>>
  /\ fnArgs.moments[3] = <<NoteOn(1, 60, 64), Tempo(61)>>
  /\ tk.micros_per_tick # fnArgs.self.micros_per_tick
  /\ fnRet.val > 0

\* the tick lengths of the tracks a Sheet was built from
TrackLens == [i \in 1..Len(fnArgs.tracks) |-> Len(Sheet_single(fnArgs.tracks[i]))]

RECURSIVE LensSum(_)
LensSum(n) == IF n = 0 THEN 0 ELSE LensSum(n - 1) + TrackLens[n]

\* the events that the first n tracks have on their k-th tick, a track that
\* is shorter having none
RECURSIVE EventsOnTick(_, _)
EventsOnTick(k, n) ==
  IF n = 0 THEN 0
  ELSE EventsOnTick(k, n - 1)
         + (IF k <= TrackLens[n] THEN Len(Sheet_single(fnArgs.tracks[n])[k])
            ELSE 0)

RECURSIVE NonMidiPositions(_, _)
NonMidiPositions(moment, i) ==
  IF i > Len(moment) THEN <<>>
  ELSE (IF moment[i].type \in {"NoteOn", "NoteOff", "Other"} THEN <<>>
        ELSE <<i>>) \o NonMidiPositions(moment, i + 1)

\* C20: extract_meta_events returns a Sheet as long as its input; no Moment
\* of it holds a Midi event, the events of a Moment are the non-Midi events of
\* the input's Moment of the same index in their order, a Moment without
\* events is the empty Moment, and the caller's Sheet is as it was.
C20_MetaEventsKeptInPlace ==
  (fnArgs.fn = "extract_meta_events" /\ fnRet.done) =>
    /\ Len(fnRet.val) = Len(fnArgs.sheet)
    /\ \A k \in 1..Len(fnRet.val) :
         LET at == NonMidiPositions(fnArgs.sheet[k], 1)
         IN /\ Len(fnRet.val[k]) = Len(at)
            /\ \A i \in 1..Len(at) :
                 /\ fnRet.val[k][i] = fnArgs.sheet[k][at[i]]
                 /\ fnRet.val[k][i].type \notin {"NoteOn", "NoteOff", "Other"}
            /\ at = <<>> => fnRet.val[k] = <<>>
    /\ sheet = fnArgs.sheet

\* C20: a Sheet with a Moment of Midi events only and a Moment that mixes
\* Midi events with two others has been filtered
C20_MixedMomentFiltered ==
  /\ fnArgs.fn = "extract_meta_events" /\ fnRet.done
  /\ Len(sheet) = 3
  /\ sheet[1] = <<NoteOn(1, 60, 64)>> /\ fnRet.val[1] = <<>>
  /\ sheet[3] = <<NoteOn(1, 60, 64), Tempo(6), KeySignature, NoteOff(1, 60, 0)>>
  /\ fnRet.val[3] = <<Tempo(6), KeySignature>>

\* the Moment indices, counted from 0, of the non-empty Moments of the Sheet
NonEmptyAt == {j \in 0..(Len(sheet) - 1) : ~is_empty(sheet[j + 1])}

\* the index of the i-th non-empty Moment
NthNonEmpty(i) ==
  CHOOSE j \in NonEmptyAt : Cardinality({k \in NonEmptyAt : k < j}) = i - 1

RECURSIVE SumSeq(_)
SumSeq(q) == IF q = <<>> THEN 0 ELSE Head(q) + SumSeq(Tail(q))

\* C21: Player::play asks the timer to sleep once for every non-empty Moment
\* it has reached, in order, the ticks asked being the Moment's index minus
\* the index of the non-empty Moment before it (the index itself for the
\* first); passing an empty Moment asks for no sleep, makes no sink call and
\* writes no LED; when play has returned true the ticks asked add up to the
\* index of the last non-empty Moment.
C21_TickAccounting ==
  /\ [](prog = "Player" =>
          /\ Len(sleeps) =
               Cardinality({j \in NonEmptyAt :
                              j + 1 < mi \/ (j + 1 = mi /\ fgpc # "moment")})
          /\ \A i \in 1..Len(sleeps) :
               sleeps[i] = NthNonEmpty(i) - (IF i = 1 THEN 0 ELSE NthNonEmpty(i - 1))
          /\ result = "true" =>
               SumSeq(sleeps) = IF NonEmptyAt = {} THEN 0
                                ELSE NthNonEmpty(Cardinality(NonEmptyAt)))
  /\ [][(prog = "Player" /\ fgpc = "moment" /\ mi <= Len(sheet)
           /\ is_empty(sheet[mi])) =>
          /\ sleeps' = sleeps /\ sinkLog' = sinkLog
          /\ led_data' = led_data /\ strip' = strip]_vars

\* C21: play returned true on a Sheet that starts with an empty Moment and has
\* an empty Moment between its two non-empty ones
C21_GapsBeforeAndBetween ==
  /\ prog = "Player" /\ result = "true"
  /\ sleeps = <<1, 2>> /\ Len(sheet) = 4 /\ is_empty(sheet[3])

\* C28: for every key 0..=127, get_led_index(key) is computed without
\* underflow and is an index of the 176-entry LED frame.
C28_LedIndexInFrame ==
  (fnArgs.fn = "get_led_index" /\ fnRet.done /\ fnArgs.key <= 127) =>
    fnRet.val \in 0..(NumLeds - 1)

\* C28: the highest MIDI key is mapped past the end of the frame
C28_Key127PastFrame ==
  /\ fnArgs.fn = "get_led_index" /\ fnRet.done
  /\ fnArgs.key = 127 /\ fnRet.val = 212

\* the callback is in the handler of a note message
NoteHandled ==
  Len(lmsg) > 1 /\ StatusNibble(lmsg[1]) \in {NoteOnStatus, NoteOffStatus}

\* the positions of the handler after it found its key not expected
UnexpectedBranch == {"on_led", "off_led", "on_data", "off_data", "led_write"}

\* the positions at which the callback is not in the handler
HandlerOver == {"idle", "panicked", "poisoned"}

\* C22: the listener writes the LED buffer only in the handler of a note
\* message whose key it found outside notes_to_press; that handler ends with
\* the key's LED at (1,0,0) for a NoteOn and (0,0,0) for a NoteOff; for a
\* key found in notes_to_press the listener sets only that entry, to true
\* on NoteOn, followed by the condition-variable signal, and to false on
\* NoteOff, and does not change the LED buffer; the listener changes
\* notes_to_press in no other way.
C22_ListenerLedOnlyForUnexpected ==
  [][(prog = "Learner" /\ lpc' # lpc) =>
       /\ led_data' # led_data => lpc \in {"on_data", "off_data"}
       /\ (lpc' \in UnexpectedBranch /\ lpc \notin UnexpectedBranch) =>
            lmsg[2] \notin DOMAIN notes_to_press
       /\ (NoteHandled /\ lpc' \in HandlerOver) =>
            \/ lpc \in {"on_notify", "off_check"}
            \/ /\ get_led_index(lmsg[2]) \in DOMAIN led_data
               /\ led_data'[get_led_index(lmsg[2])] =
                    IF StatusNibble(lmsg[1]) = NoteOnStatus THEN <<1, 0, 0>>
                    ELSE Off
       /\ (lpc \in {"on_check", "off_check"}
             /\ lmsg[2] \in DOMAIN notes_to_press) =>
            /\ notes_to_press' =
                 [notes_to_press EXCEPT ![lmsg[2]] = (lpc = "on_check")]
            /\ lpc' = IF lpc = "on_check" THEN "on_cv" ELSE "idle"
       /\ lpc \in {"on_cv", "on_notify"} => lpc' \in {"on_notify", "idle"}
       /\ (lpc = "on_notify" /\ lpc' = "idle") => cv_flag'
       /\ notes_to_press' # notes_to_press =>
            lpc \in {"on_check", "off_check"}
    ]_vars

\* C22: the handler of a NoteOn for key 120, which is not expected, has
\* ended in the panic of `data[index]` with the LED buffer as it was
C22_UnexpectedKeyNotLit ==
  /\ prog = "Learner" /\ lpc = "poisoned"
  /\ lmsg = <<144, 120, 64>> /\ 120 \notin DOMAIN notes_to_press
  /\ \A i \in DOMAIN led_data : led_data[i] # <<1, 0, 0>>

\* the keys whose last note message was a note-on
LastNoteOn == {k \in DOMAIN lastNote : lastNote[k] = NoteOnStatus}

\* C23: whenever the callback is not between the receipt of a note message
\* and its update of notes_pressed, notes_pressed holds exactly the keys whose
\* most recent note message was a note-on; no step of learn adds, removes or
\* clears an entry.
C23_PressedIsLastNoteOn ==
  /\ [](prog = "Learner" =>
          (lpc \notin {"on", "off", "on_pressed", "off_pressed"} =>
             notes_pressed = LastNoteOn))
  /\ [][(prog = "Learner" /\ lpc' = lpc) => notes_pressed' = notes_pressed]_vars

\* C23: in a build with overflow checks the callback was entered with a
\* NoteOn for key 5 and ended at get_led_index, before notes_pressed.insert
C23_Key5NotRecorded ==
  /\ prog = "Learner" /\ lpc = "panicked" /\ lmsg = <<144, 5, 64>>
  /\ 5 \in LastNoteOn /\ 5 \notin notes_pressed

\* a message that is active sensing or whose status nibble is neither 0x90
\* nor 0x80
Ignorable(m) ==
  m[1] = 254 \/ StatusNibble(m[1]) \notin {NoteOnStatus, NoteOffStatus}

\* C29: the callback entered with an active-sensing message, or with a
\* message whose status nibble is neither note-on nor note-off, does nothing
\* but return (or panic on its key byte): none of its steps changes
\* notes_to_press, notes_pressed, the LED buffer or the frame on the strip,
\* sets the condition variable's flag or wakes the waiting loop.
C29_OtherMessagesIgnored ==
  [][prog = "Learner" =>
       /\ (lpc = "idle" /\ lpc' # "idle" /\ Ignorable(lmsg')) =>
            /\ lpc' \in {"ignored", "panicked"}
            /\ UNCHANGED <<notes_to_press, notes_pressed, led_data, strip,
                           cv_flag, fgpc>>
       /\ (lpc = "ignored" /\ lpc' # lpc) =>
            /\ lpc' = "idle"
            /\ UNCHANGED <<notes_to_press, notes_pressed, led_data, strip,
                           cv_flag, fgpc>>
    ]_vars

\* C29: a controller message arrived while the loop was parked in the wait
\* for a key
C29_ControllerWhileWaiting ==
  /\ prog = "Learner" /\ lpc = "ignored" /\ lmsg = <<176, 64, 127>>
  /\ fgpc = "cv_parked" /\ ~AllPressed(notes_to_press)

\* the keys of the sounding practice-track NoteOn events of 36..=96 in the
\* Moment the loop is at
PracticeKeysOfMoment ==
  IF mi > Len(sheet) THEN {}
  ELSE {sheet[mi][i].key : i \in {j \in 1..Len(sheet[mi]) :
          /\ sheet[mi][j].type = "NoteOn" /\ sheet[mi][j].vel > 0
          /\ sheet[mi][j].track = tracks.learn
          /\ sheet[mi][j].key >= 36 /\ sheet[mi][j].key <= 96}}

\* C24: notes_to_press is empty whenever learn is at the start of a Moment;
\* its keys are always among the practice keys of the Moment learn is at; no
\* step of the listener changes its key set.
C24_ExpectedWithinMoment ==
  /\ [](prog = "Learner" =>
          /\ fgpc = "moment" => notes_to_press = <<>>
          /\ DOMAIN notes_to_press \subseteq PracticeKeysOfMoment)
  /\ [][(prog = "Learner" /\ lpc' # lpc) =>
          DOMAIN notes_to_press' = DOMAIN notes_to_press]_vars

\* C24: learn is at the start of its second Moment, the first one's key
\* having been expected, marked by the listener and cleared
C24_ClearedForNextMoment ==
  /\ prog = "Learner" /\ fgpc = "moment" /\ mi = 2 /\ Len(sheet) = 2
  /\ notes_to_press = <<>> /\ waits = 1 /\ 60 \in notes_pressed
  /\ PracticeKeysOfMoment = {60}

\* the events of a Sheet in Sheet order: Moment by Moment, and in the order
\* of each Moment
RECURSIVE SheetEvents(_)
SheetEvents(sh) ==
  IF sh = <<>> THEN <<>> ELSE Head(sh) \o SheetEvents(Tail(sh))

\* a NoteOn or NoteOff of the practice track with a key in 36..=96
PracticeNoteInRange(e) ==
  /\ e.type \in {"NoteOn", "NoteOff"}
  /\ e.track = tracks.learn
  /\ e.key >= 36 /\ e.key <= 96

\* the events passed to Connection::play so far
PlayedEvents == [i \in 1..Len(sinkLog) |-> sinkLog[i].event]

\* C26: when learn has returned true, the events passed to Connection::play
\* are the Midi events of the Sheet that are not note events of the practice
\* track with a key in 36..=96, once each and in Sheet order, whatever the
\* input thread did.
C26_PlayedIsUnwithheldSubsequence ==
  (prog = "Learner" /\ result = "true") =>
    PlayedEvents =
      SelectSeq(SheetEvents(sheet),
                LAMBDA e : IsMidi(e) /\ ~PracticeNoteInRange(e))

\* C26: learn returned true after messages had arrived, and the first event
\* it played was the practice track's NoteOn of velocity 0 for key 60
C26_PlayedWithheldKey ==
  /\ prog = "Learner" /\ result = "true" /\ inputs > 0
  /\ sinkLog # <<>> /\ sinkLog[1].event = NoteOn(tracks.learn, 60, 0)

\* C30: FixedTempo's sleep_duration(n) is the wrapped value times n, taken
\* as microseconds, and change_tempo leaves the wrapped value as it was.
C30_FixedTempoMicros ==
  (fnArgs.fn = "FixedTempo" /\ fnRet.done) =>
    /\ fnRet.call = "sleep_duration" =>
         /\ ~fnRet.panicked
         /\ fnRet.val = MicrosOfMicros(MulBits(fnRet.before, fnRet.arg, 0))
    /\ fnRet.call = "change_tempo" => fnArgs.self = fnRet.before

\* C30: the FixedTempo of 25 frames a second with 40 ticks a frame, 1000
\* microseconds a tick, answered one tick with 1000000 microseconds
C30_OneTickOneSecond ==
  /\ fnArgs.fn = "FixedTempo" /\ fnArgs.self = Bin(1000)
  /\ fnRet.done /\ fnRet.call = "sleep_duration" /\ fnRet.arg = 1
  /\ fnRet.val = Bin(1000000)

\* the nominal durations of the first k logged calls, added up
RECURSIVE NominalUpTo(_)
NominalUpTo(k) == IF k = 0 THEN 0 ELSE tkLog[k].nominal + NominalUpTo(k - 1)

\* C27: on a Ticker used through sleep only, the k-th sleep is never over
\* before the instant of the first sleep plus the nominal durations of
\* sleeps 1..k, whatever the tick counts and the time between the calls.
C27_NeverAheadOfSchedule ==
  (\A i \in 1..Len(tkLog) : tkLog[i].op = "sleep") =>
    \A k \in 1..Len(tkLog) : tkLog[k].over >= tkLog[1].at + NominalUpTo(k)

\* C27: a first sleep of 3 microseconds and, right after it, a second one of
\* 21 microseconds that was over 21 microseconds after the first began
C27_SecondSleepAhead ==
  /\ Len(tkLog) = 2 /\ tkLog[1].op = "sleep" /\ tkLog[2].op = "sleep"
  /\ tkLog[1].nominal = 3 /\ tkLog[2].nominal = 21
  /\ tkLog[2].at = tkLog[1].at + 3
  /\ tkLog[2].over = tkLog[1].at + 21

\* C25: a ControlTicker on whose channel nothing is sent and a Ticker made
\* with the same ticks-per-beat and tempo, given the same change_tempo,
\* sleep, sleep_duration and duration calls at the same instants, have
\* returned the same Duration from every call and hold the same tempo,
\* baseline, ticks-per-beat and speed.
C25_ControlTickerAsTicker ==
  (sent = 0 /\ ctpc = "idle" /\ tkCalls = ctCalls) =>
    /\ ct = tk
    /\ ctCall.ret = tkCall.ret
    /\ ctCall.base = tkCall.base

\* C25: after the Sender was dropped, both timers shortened a sleep of 21
\* microseconds by the time elapsed since their common baseline
C25_BothShortened ==
  /\ ~senderAlive /\ sent = 0 /\ tkCalls = 2 /\ ctCalls = 2
  /\ tkCall.op = "sleep" /\ tkCall.base # None
  /\ ctCall.ret = 21 - (tkCall.at - tkCall.base) /\ ctCall.ret < 21
  /\ ctCall.ret > 0

=============================================================================
